---- MODULE Spec2Model ----
(***************************************************************************)
(* The local log store of the desktop application (src-tauri/src/log_store) *)
(* as a state machine: the logs table, the wall clock, and one action per  *)
(* command.  Strings are sequences of bytes, so that the concatenation of  *)
(* compute_log_id and the formatting of extract_message are computed as    *)
(* the code computes them.  Option<T> is a sequence of length at most one. *)
(***************************************************************************)
EXTENDS Integers, Sequences, FiniteSets, TLC

VARIABLES
    logs,   \* the rows of table `logs` (db.rs:53-69), a set of LogEntry records
    now,    \* chrono::Utc::now().timestamp_millis()
    last,   \* the last command called: its arguments and what it returned
    trav,   \* history of a client paging through query_logs with the returned cursors
    fin,    \* inputs and outputs of compute_log_id when it is checked on its own
    rowid,  \* the rowid SQLite keeps for each row of `logs`, by the row's id
    logs_fts, \* the full-text index `logs_fts` (db.rs:79-87): entries by rowid
    settings, \* table `settings` (db.rs:90-96): the value stored under each key
    sqlite_master, \* the names of the schema objects the database file holds
    lock,   \* the owner of the Mutex around the connection (db.rs:7), if any
    pc      \* where each concurrent caller is inside the command it runs

vars == <<logs, now, last, trav, fin, sqlite_master, rowid, logs_fts, settings, lock, pc>>

(***************************************************************************)
(* Option<T>                                                               *)
(***************************************************************************)
None == <<>>
Some(v) == <<v>>
unwrap_or(o, d) == IF o = None THEN d ELSE o[1]

(***************************************************************************)
(* String literals of the source, as bytes                                 *)
(***************************************************************************)
S_ERROR == <<69, 82, 82, 79, 82>>   \* "ERROR"
S_INFO == <<73, 78, 70, 79>>   \* "INFO"
S_ErrorPrefix == <<69, 114, 114, 111, 114, 58, 32>>   \* "Error: "
S_LineSep == <<32, 124, 32>>   \* " | "
S_FunctionOpen == <<70, 117, 110, 99, 116, 105, 111, 110, 32, 39>>   \* "Function '"
S_Executed == <<39, 32, 101, 120, 101, 99, 117, 116, 101, 100>>   \* "' executed"
S_Failed == <<39, 32, 102, 97, 105, 108, 101, 100>>   \* "' failed"
S_LogEntry == <<76, 111, 103, 32, 101, 110, 116, 114, 121>>   \* "Log entry"
S_function == <<102, 117, 110, 99, 116, 105, 111, 110>>   \* "function"
S_query == <<113, 117, 101, 114, 121>>   \* "query"
S_mutation == <<109, 117, 116, 97, 116, 105, 111, 110>>   \* "mutation"
S_action == <<97, 99, 116, 105, 111, 110>>   \* "action"
S_httpaction == <<104, 116, 116, 112, 97, 99, 116, 105, 111, 110>>   \* "httpaction"

(***************************************************************************)
(* Strings the callers supply                                              *)
(***************************************************************************)
S_empty == <<>>   \* ""
S_d1 == <<100, 49>>   \* "d1"
S_d2 == <<100, 50>>   \* "d2"
S_r1 == <<114, 49>>   \* "r1"
S_f == <<102>>   \* "f"
S_x == <<120>>   \* "x"
S_y == <<121>>   \* "y"
S_e1 == <<101, 49>>   \* "e1"
S_Query == <<81, 117, 101, 114, 121>>   \* "Query"
S_cron == <<99, 114, 111, 110>>   \* "cron"
S_boom_failed == <<98, 111, 111, 109, 32, 102, 97, 105, 108, 101, 100>>   \* "boom failed"
S_all_good == <<97, 108, 108, 32, 103, 111, 111, 100>>   \* "all good"
S_INFOx == <<73, 78, 70, 79, 120>>   \* "INFOx"
S_boom == <<98, 111, 111, 109>>   \* "boom"
S_failed == <<102, 97, 105, 108, 101, 100>>   \* "failed"
S_Good == <<71, 111, 111, 100>>   \* "Good"
S_Cron == <<67, 114, 111, 110>>   \* "Cron"
S_HttpAction == <<72, 116, 116, 112, 65, 99, 116, 105, 111, 110>>   \* "HttpAction"
S_MUTATION == <<77, 85, 84, 65, 84, 73, 79, 78>>   \* "MUTATION"
S_actions == <<97, 99, 116, 105, 111, 110, 115>>   \* "actions"
S_blank == <<32, 32>>   \* "  "

(***************************************************************************)
(* utils.rs                                                                *)
(***************************************************************************)

\* i64::to_le_bytes for -2^31 <= n < 2^31: the four high bytes are the sign.
to_le_bytes(n) ==
    [i \in 1..8 |-> IF i <= 4 THEN (n \div (256 ^ (i - 1))) % 256
                    ELSE IF n < 0 THEN 255 ELSE 0]

\* `if let Some(s) = o { hasher.update(s.as_bytes()) }`: an absent field feeds nothing.
update_opt(o) == IF o = None THEN <<>> ELSE o[1]

\* hex::encode(Sha256(bytes)).  The digest is taken to be collision-free: it is
\* represented by the byte string it was computed from.
Sha256Hex(bytes) == [sha256 |-> bytes]

compute_log_id_no_message(ts, deployment, request_id, function_path, level, message) ==
    Sha256Hex(to_le_bytes(ts) \o deployment \o update_opt(request_id)
              \o update_opt(function_path) \o update_opt(level))

compute_log_id(ts, deployment, request_id, function_path, level, message) ==
    Sha256Hex(to_le_bytes(ts) \o deployment \o update_opt(request_id)
              \o update_opt(function_path) \o update_opt(level) \o message)

RECURSIVE join(_, _)
\* [String]::join(sep)
join(lines, sep) ==
    IF lines = <<>> THEN <<>>
    ELSE IF Len(lines) = 1 THEN lines[1]
    ELSE lines[1] \o sep \o join(Tail(lines), sep)

\* a summary that prefers the log lines to the error text
extract_message_lines_first(entry) ==
    IF entry.log_lines # None /\ entry.log_lines[1] # <<>>
    THEN join(entry.log_lines[1], S_LineSep)
    ELSE IF entry.error # None THEN S_ErrorPrefix \o entry.error[1]
    ELSE IF entry.function_name # None
         THEN IF unwrap_or(entry.success, TRUE)
              THEN S_FunctionOpen \o entry.function_name[1] \o S_Executed
              ELSE S_FunctionOpen \o entry.function_name[1] \o S_Failed
    ELSE S_LogEntry

extract_message(entry) ==
    IF entry.error # None THEN S_ErrorPrefix \o entry.error[1]
    ELSE IF entry.log_lines # None /\ entry.log_lines[1] # <<>>
         THEN join(entry.log_lines[1], S_LineSep)
    ELSE IF entry.function_name # None
         THEN IF unwrap_or(entry.success, TRUE)
              THEN S_FunctionOpen \o entry.function_name[1] \o S_Executed
              ELSE S_FunctionOpen \o entry.function_name[1] \o S_Failed
    ELSE S_LogEntry

\* a level where a reported success wins over the error
infer_level_success_first(entry) ==
    IF unwrap_or(entry.success, FALSE) THEN Some(S_INFO)
    ELSE IF entry.error # None \/ ~unwrap_or(entry.success, TRUE) THEN Some(S_ERROR)
    ELSE None

infer_level(entry) ==
    IF entry.error # None \/ ~unwrap_or(entry.success, TRUE) THEN Some(S_ERROR)
    ELSE IF unwrap_or(entry.success, FALSE) THEN Some(S_INFO)
    ELSE None

\* str::to_lowercase on ASCII
to_lowercase(s) == [i \in 1..Len(s) |-> IF s[i] >= 65 /\ s[i] <= 90 THEN s[i] + 32 ELSE s[i]]

\* a match on the exact text, without to_lowercase
infer_topic_case_sensitive(udf_type) ==
    IF udf_type = None THEN None
    ELSE IF udf_type[1] \in {S_query, S_mutation, S_action, S_httpaction}
         THEN Some(S_function)
    ELSE Some(udf_type[1])

infer_topic(udf_type) ==
    IF udf_type = None THEN None
    ELSE IF to_lowercase(udf_type[1]) \in {S_query, S_mutation, S_action, S_httpaction}
         THEN Some(S_function)
    ELSE Some(udf_type[1])

(***************************************************************************)
(* Clock.  Timestamps are milliseconds counted from an origin chosen so    *)
(* that they fit the checker's integers; a day keeps its length.           *)
(***************************************************************************)
DayMs == 24 * 60 * 60 * 1000
Now0 == DayMs + 1000         \* the clock at start: one day after timestamp 1000
ClockValues == {Now0, Now0 + 1}

(***************************************************************************)
(* models.rs: IngestLogEntry values the callers send                       *)
(***************************************************************************)
Deployments == {S_d1, S_d2}

NoEntry ==
    [id |-> S_empty, timestamp |-> 1000, function_identifier |-> None,
     function_name |-> None, udf_type |-> None, request_id |-> None,
     execution_id |-> None, success |-> None, duration_ms |-> None,
     error |-> None, log_lines |-> None, raw |-> None]

\* request r1 logged "boom failed"; success unknown
EvBoom == [NoEntry EXCEPT !.request_id = Some(S_r1), !.log_lines = Some(<<S_boom_failed>>)]
\* the same event seen again with more detail: same id fields, other fields differ
EvBoomDetail ==
    [EvBoom EXCEPT !.execution_id = Some(S_e1), !.udf_type = Some(S_Query),
                   !.duration_ms = Some(5), !.raw = Some([payload |-> 1])]
\* "r1" is the function path here, not the request id
EvBoomPath == [NoEntry EXCEPT !.function_identifier = Some(S_r1), !.log_lines = Some(<<S_boom_failed>>)]
\* a successful run of function f at the same millisecond
EvOk ==
    [NoEntry EXCEPT !.function_identifier = Some(S_f), !.function_name = Some(S_f),
                    !.udf_type = Some(S_cron), !.success = Some(TRUE)]
\* an older failed run
EvErr ==
    [NoEntry EXCEPT !.timestamp = 999, !.request_id = Some(S_r1), !.error = Some(S_x),
                    !.success = Some(FALSE)]
\* a newer successful run that logged "all good"
EvGood ==
    [NoEntry EXCEPT !.timestamp = 1001, !.log_lines = Some(<<S_all_good>>),
                    !.success = Some(TRUE)]

EventSet == {EvBoom, EvBoomDetail, EvBoomPath, EvOk, EvErr, EvGood}

\* the events a caller retries or sends in batches
RetryEvents == {EvBoom, EvBoomDetail, EvErr}

MaxBatch == 2                \* longest batch a caller sends
MaxRows == 3                 \* the table is explored up to this many rows

Batches == UNION {[1..n -> RetryEvents] : n \in 0..MaxBatch}

(***************************************************************************)
(* db.rs: the tokenizer of logs_fts, tokenize='porter unicode61'           *)
(***************************************************************************)
IsAlnum(b) == (b >= 48 /\ b <= 57) \/ (b >= 65 /\ b <= 90) \/ (b >= 97 /\ b <= 122)
IsSpace(b) == b \in {9, 10, 11, 12, 13, 32}

RECURSIVE unicode61(_, _)
\* tokenize='... unicode61': the runs of letters and digits, in lower case
unicode61(s, run) ==
    IF s = <<>> THEN (IF run = <<>> THEN {} ELSE {run})
    ELSE IF IsAlnum(s[1]) THEN unicode61(Tail(s), run \o to_lowercase(<<s[1]>>))
    ELSE (IF run = <<>> THEN {} ELSE {run}) \cup unicode61(Tail(s), <<>>)

RECURSIVE IsVowelAt(_, _)
IsVowelAt(w, i) ==
    \/ w[i] \in {97, 101, 105, 111, 117}
    \/ (w[i] = 121 /\ i > 1 /\ ~IsVowelAt(w, i - 1))
HasVowel(w) == \E i \in 1..Len(w) : IsVowelAt(w, i)
\* Porter's measure: the number of vowel-consonant sequences
Measure(w) == Cardinality({i \in 1..(Len(w) - 1) : IsVowelAt(w, i) /\ ~IsVowelAt(w, i + 1)})
EndsWith(w, suffix) ==
    Len(w) >= Len(suffix) /\ SubSeq(w, Len(w) - Len(suffix) + 1, Len(w)) = suffix
Chop(w, n) == SubSeq(w, 1, Len(w) - n)
EndsCvc(w) ==
    /\ Len(w) >= 3
    /\ ~IsVowelAt(w, Len(w) - 2) /\ IsVowelAt(w, Len(w) - 1) /\ ~IsVowelAt(w, Len(w))
    /\ w[Len(w)] \notin {119, 120, 121}

Step1a(w) ==
    IF EndsWith(w, <<115, 115, 101, 115>>) THEN Chop(w, 2)        \* sses -> ss
    ELSE IF EndsWith(w, <<105, 101, 115>>) THEN Chop(w, 2)        \* ies -> i
    ELSE IF EndsWith(w, <<115, 115>>) THEN w                      \* ss
    ELSE IF EndsWith(w, <<115>>) THEN Chop(w, 1)                  \* s ->
    ELSE w

Step1bFix(w) ==
    IF \/ EndsWith(w, <<97, 116>>) \/ EndsWith(w, <<98, 108>>) \/ EndsWith(w, <<105, 122>>)
    THEN w \o <<101>>                                             \* at, bl, iz -> +e
    ELSE IF /\ Len(w) >= 2 /\ w[Len(w)] = w[Len(w) - 1] /\ ~IsVowelAt(w, Len(w))
            /\ w[Len(w)] \notin {108, 115, 122}
         THEN Chop(w, 1)
    ELSE IF Measure(w) = 1 /\ EndsCvc(w) THEN w \o <<101>>
    ELSE w

Step1b(w) ==
    IF EndsWith(w, <<101, 101, 100>>)                             \* eed
    THEN (IF Measure(Chop(w, 3)) > 0 THEN Chop(w, 1) ELSE w)
    ELSE IF EndsWith(w, <<101, 100>>) /\ HasVowel(Chop(w, 2))     \* ed
         THEN Step1bFix(Chop(w, 2))
    ELSE IF EndsWith(w, <<105, 110, 103>>) /\ HasVowel(Chop(w, 3)) \* ing
         THEN Step1bFix(Chop(w, 3))
    ELSE w

Step1c(w) ==
    IF EndsWith(w, <<121>>) /\ HasVowel(Chop(w, 1)) THEN Chop(w, 1) \o <<105>> ELSE w

\* tokenize='porter ...': steps 1a-1c of the stemmer; steps 2-5 leave every
\* word of the strings above as it is.  Tokens shorter than 3 are not stemmed.
porter(w) == IF Len(w) < 3 THEN w ELSE Step1c(Step1b(Step1a(w)))

Tokenize(s) == {porter(w) : w \in unicode61(s, <<>>)}

\* The index entry of a row: the tokens of the four indexed columns (the
\* triggers logs_ai / logs_ad keep logs_fts in step with logs, db.rs:113-120)
IndexedTokens(r) ==
    Tokenize(r.message) \cup Tokenize(update_opt(r.function_path))
    \cup Tokenize(update_opt(r.function_name)) \cup Tokenize(update_opt(r.request_id))

(***************************************************************************)
(* commands.rs: ingest_logs                                                *)
(***************************************************************************)

\* serde_json::to_string: the text stands for the value it encodes
to_string(v) == [json |-> v]

\* The row bound to the INSERT statement (commands.rs:25-68)
LogRow(entry, deployment, t) ==
    LET message == extract_message(entry)
        level == infer_level(entry)
        topic == infer_topic(entry.udf_type)
    IN  [id |-> compute_log_id(entry.timestamp, deployment, entry.request_id,
                               entry.function_identifier, level, message),
         ts |-> entry.timestamp,
         deployment |-> deployment,
         request_id |-> entry.request_id,
         execution_id |-> entry.execution_id,
         topic |-> topic,
         level |-> level,
         function_path |-> entry.function_identifier,
         function_name |-> entry.function_name,
         udf_type |-> entry.udf_type,
         success |-> IF entry.success = None THEN None
                     ELSE Some(IF entry.success[1] THEN 1 ELSE 0),
         duration_ms |-> entry.duration_ms,
         message |-> message,
         json_blob |-> IF entry.raw # None THEN to_string(entry.raw[1])
                       ELSE to_string([entry EXCEPT !.raw = None]),
         created_at |-> t]

\* INSERT OR REPLACE: what the statement would do if it overwrote on conflict
InsertOrReplace(table, row) ==
    [table |-> {r \in table : r.id # row.id} \cup {row}, rows |-> 1]

\* INSERT OR IGNORE that reports a changed row also when the key was taken
InsertOrIgnoreCounted(table, row) ==
    IF \E r \in table : r.id = row.id
    THEN [table |-> table, rows |-> 1]
    ELSE [table |-> table \cup {row}, rows |-> 1]

\* an upsert that stamps the stored row with the time of the new write
InsertOrTouch(table, row) ==
    IF \E r \in table : r.id = row.id
    THEN [table |-> {IF r.id = row.id THEN [r EXCEPT !.created_at = row.created_at]
                     ELSE r : r \in table},
          rows |-> 0]
    ELSE [table |-> table \cup {row}, rows |-> 1]

\* INSERT OR IGNORE INTO logs: a row whose primary key is taken is skipped and
\* the statement reports 0 changed rows.
InsertOrIgnore(table, row) ==
    IF \E r \in table : r.id = row.id
    THEN [table |-> table, rows |-> 0]
    ELSE [table |-> table \cup {row}, rows |-> 1]

\* The rowid of a new row in a table without an INTEGER PRIMARY KEY: one more
\* than the largest rowid in use
NewRowid(ids) ==
    IF DOMAIN ids = {} THEN 1
    ELSE (CHOOSE n \in {ids[k] : k \in DOMAIN ids} : \A k \in DOMAIN ids : ids[k] <= n) + 1

\* The largest rowid the model lets a table reach
MaxRowid == 4

\* What the triggers hand to logs_fts for a row: its rowid and the four
\* indexed columns.  The index tokenizes them; IndexedTokens gives the tokens.
FtsValues(row_id, r) ==
    [rowid |-> row_id, message |-> r.message, function_path |-> r.function_path,
     function_name |-> r.function_name, request_id |-> r.request_id]

\* Trigger logs_ai (db.rs:113-116): index the new row under its rowid
logs_ai(index, new_rowid, new) == index \cup {FtsValues(new_rowid, new)}

\* a delete trigger that leaves the index as it was
logs_ad_keep(index, old_rowid, old) == index

\* Trigger logs_ad (db.rs:118-121): the 'delete' command takes the old row's
\* values out of the index under its rowid
logs_ad(index, old_rowid, old) == index \ {FtsValues(old_rowid, old)}

\* The database file: table logs with its rowids, and the index
Db == [logs |-> logs, rowid |-> rowid, logs_fts |-> logs_fts]

\* One INSERT OR IGNORE statement with the trigger it fires
InsertRow(db, row) ==
    LET done == InsertOrIgnore(db.logs, row)
        new_rowid == NewRowid(db.rowid)
    IN  IF row \in done.table \ db.logs
        THEN [db |-> [logs |-> done.table,
                      rowid |-> [k \in DOMAIN db.rowid \cup {row.id} |->
                                    IF k = row.id THEN new_rowid ELSE db.rowid[k]],
                      logs_fts |-> logs_ai(db.logs_fts, new_rowid, row)],
              rows |-> done.rows]
        ELSE [db |-> [db EXCEPT !.logs = done.table], rows |-> done.rows]

\* One DELETE statement, its result `done`, with logs_ad fired for each row gone
DeleteRows(db, done) ==
    LET gone == db.logs \ done.table
    IN  [logs |-> done.table,
         rowid |-> [k \in {r.id : r \in done.table} |-> db.rowid[k]],
         logs_fts |-> {e \in db.logs_fts :
                          \A r \in gone : e \in logs_ad({e}, db.rowid[r.id], r)}]

\* VACUUM copies table logs, which has indexes, with its rowids
Vacuum(db) == db

NoCounts == [inserted |-> 0, duplicates |-> 0, errors |-> 0]

\* a loop that stops at the first event whose INSERT fails
IngestLoopAbort(db, entries, i, deployment, t, failing, counts) ==
    LET first == IF failing = {} THEN Len(entries) + 1
                 ELSE CHOOSE k \in failing : \A j \in failing : k <= j
        stored == {LogRow(entries[k], deployment, t) : k \in 1..(first - 1)}
        fresh == {r \in stored : \A q \in db.logs : q.id # r.id}
    IN  [db |-> [db EXCEPT !.logs = @ \cup fresh],
         result |-> [inserted |-> Cardinality({r.id : r \in fresh}),
                     duplicates |-> (first - 1) - Cardinality({r.id : r \in fresh}),
                     errors |-> IF failing = {} THEN 0 ELSE 1]]

\* a loop inside a transaction that is rolled back when an INSERT fails
IngestLoopRollback(db, entries, i, deployment, t, failing, counts) ==
    [db |-> db,
     result |-> [inserted |-> 0, duplicates |-> Len(entries) - Cardinality(failing),
                 errors |-> Cardinality(failing)]]

RECURSIVE IngestLoop(_, _, _, _, _, _, _)
\* `for entry in logs { ... }` (commands.rs:23-84).  `failing` holds the positions
\* of the batch whose INSERT the storage engine fails (Err); `i` is the position.
IngestLoop(db, entries, i, deployment, t, failing, counts) ==
    IF i > Len(entries) THEN [db |-> db, result |-> counts]
    ELSE IF i \in failing
         THEN IngestLoop(db, entries, i + 1, deployment, t, failing,
                         [counts EXCEPT !.errors = @ + 1])
    ELSE LET done == InsertRow(db, LogRow(entries[i], deployment, t))
         IN  IngestLoop(done.db, entries, i + 1, deployment, t, failing,
                        IF done.rows > 0 THEN [counts EXCEPT !.inserted = @ + 1]
                        ELSE [counts EXCEPT !.duplicates = @ + 1])

\* The fields compute_log_id hashes, for one event
IdFields(entry, deployment) ==
    <<entry.timestamp, deployment, entry.request_id, entry.function_identifier,
      infer_level(entry), extract_message(entry)>>

\* How this ingest call relates to the call right before it (history only)
Follows(entries, deployment) ==
    IF last.op # "ingest" \/ last.deployment # deployment THEN "other"
    ELSE IF last.logs = entries THEN "same batch"
    ELSE IF /\ Len(entries) = 1 /\ Len(last.logs) = 1
            /\ last.result.inserted = 1
            /\ IdFields(last.logs[1], deployment) = IdFields(entries[1], deployment)
         THEN "same id fields"
    ELSE "other"

ingest_logs(entries, deployment, failing) ==
    \E run \in {IngestLoop(Db, entries, 1, deployment, now, failing, NoCounts)} :
    LET follows == Follows(entries, deployment)
    IN  /\ Cardinality(run.db.logs) <= MaxRows
        /\ \A k \in DOMAIN run.db.rowid : run.db.rowid[k] <= MaxRowid
        /\ logs' = run.db.logs
        /\ rowid' = run.db.rowid
        /\ logs_fts' = run.db.logs_fts
        /\ last' = [op |-> "ingest", logs |-> entries, deployment |-> deployment,
                    result |-> run.result, follows |-> follows, failed |-> failing,
                    prior |-> IF follows = "same id fields" THEN last.logs ELSE <<>>]
        /\ trav' = None
        /\ UNCHANGED <<now, fin, sqlite_master, settings, lock, pc>>

(***************************************************************************)
(* commands.rs: delete_logs_older_than, clear_all_logs                     *)
(***************************************************************************)
DaysSet == {0 - 1, 0, 1, 2}

\* now - (days as i64 * 24 * 60 * 60 * 1000), in i64.  The milliseconds of more
\* than 24 days are beyond the integers of the model checker; such a cutoff lies
\* before every timestamp of the model (none is below 0) and is given as -1.
CutoffTs(t, days) == IF days > 24 THEN 0 - 1 ELSE t - (days * DayMs)

\* DELETE FROM logs WHERE ts <= ?
DeleteOlderOrEqual(table, cutoff_ts) ==
    LET gone == {r \in table : r.ts <= cutoff_ts}
    IN  [table |-> table \ gone, rows |-> Cardinality(gone)]

\* DELETE FROM logs WHERE ts < ?  returning the number of rows deleted
DeleteOlder(table, cutoff_ts) ==
    LET gone == {r \in table : r.ts < cutoff_ts}
    IN  [table |-> table \ gone, rows |-> Cardinality(gone)]

delete_logs_older_than(days) ==
    LET cutoff_ts == CutoffTs(now, days)
        done == DeleteOlder(logs, cutoff_ts)
        db == DeleteRows(Db, done)
    IN  /\ logs' = db.logs
        /\ rowid' = db.rowid
        /\ logs_fts' = db.logs_fts
        /\ last' = [op |-> "delete", days |-> days, at |-> now, before |-> logs,
                    result |-> done.rows]
        /\ trav' = None
        /\ UNCHANGED <<now, fin, sqlite_master, settings, lock, pc>>

\* DELETE FROM logs
DeleteAll(table) == [table |-> {}, rows |-> Cardinality(table)]

clear_all_logs ==
    LET db == Vacuum(DeleteRows(Db, DeleteAll(logs)))
    IN  /\ logs' = db.logs
        /\ rowid' = db.rowid
        /\ logs_fts' = db.logs_fts
        /\ last' = [op |-> "clear", before |-> logs]
        /\ trav' = None
        /\ UNCHANGED <<now, fin, sqlite_master, settings, lock, pc>>

(***************************************************************************)
(* commands.rs: query_logs                                                 *)
(***************************************************************************)
\* `limit.unwrap_or(100).min(1000)`: the default and the cap, scaled down with
\* the table (MaxRows) so that a table can hold more rows than the cap.
DefaultLimit == 1
MaxLimit == 2

Min(a, b) == IF a < b THEN a ELSE b

NoFilters ==
    [deployment |-> None, start_ts |-> None, end_ts |-> None, levels |-> None,
     topics |-> None, function_path |-> None, request_id |-> None, success |-> None]

\* The filters the callers pass
FilterSet ==
    {NoFilters,
     [NoFilters EXCEPT !.deployment = Some(S_d1)],
     [NoFilters EXCEPT !.start_ts = Some(1000)],
     [NoFilters EXCEPT !.end_ts = Some(1000)],
     [NoFilters EXCEPT !.start_ts = Some(1000), !.end_ts = Some(1000)],
     [NoFilters EXCEPT !.request_id = Some(S_r1)],
     [NoFilters EXCEPT !.function_path = Some(S_r1)],
     [NoFilters EXCEPT !.success = Some(TRUE)],
     [NoFilters EXCEPT !.success = Some(FALSE)],
     [NoFilters EXCEPT !.levels = Some(<<S_ERROR>>)],
     [NoFilters EXCEPT !.levels = Some(<<S_INFO, S_ERROR>>)],
     [NoFilters EXCEPT !.levels = Some(<<>>)],
     [NoFilters EXCEPT !.topics = Some(<<S_function>>)],
     [NoFilters EXCEPT !.deployment = Some(S_d1), !.success = Some(TRUE),
                       !.levels = Some(<<S_INFO>>)]}

LimitSet == {None, Some(0 - 2), Some(0 - 1), Some(0), Some(1), Some(2), Some(3)}

\* format!("{}:{}", log.ts, log.id), kept as the parts between the ':'
format_cursor(log) == <<[int |-> log.ts], log.id>>

\* str::parse::<i64>().ok() of one part
parse_i64(part) == IF "int" \in DOMAIN part THEN Some(part.int) ELSE None

\* The cursor parsed into (cursor_ts, cursor_id) (commands.rs:106-118)
parse_cursor(cursor) ==
    IF cursor # None /\ Len(cursor[1]) = 2
    THEN [ts |-> parse_i64(cursor[1][1]), id |-> Some(cursor[1][2])]
    ELSE [ts |-> None, id |-> None]

RECURSIVE BytesLess(_, _)
BytesLess(a, b) ==
    IF b = <<>> THEN FALSE
    ELSE IF a = <<>> THEN TRUE
    ELSE IF a[1] # b[1] THEN a[1] < b[1]
    ELSE BytesLess(Tail(a), Tail(b))

\* `id < ?` on TEXT: the order of the hex digests, a total order on ids (here
\* the order of the byte strings the digests stand for)
IdLess(a, b) == BytesLess(a.sha256, b.sha256)

\* The WHERE clauses where a NULL column passes its filter
FilterWhereNullPasses(filters, r) ==
    /\ filters.deployment # None => r.deployment = filters.deployment[1]
    /\ filters.start_ts # None => r.ts >= filters.start_ts[1]
    /\ filters.end_ts # None => r.ts <= filters.end_ts[1]
    /\ filters.request_id # None =>
           (r.request_id = None \/ r.request_id[1] = filters.request_id[1])
    /\ filters.function_path # None =>
           (r.function_path = None \/ r.function_path[1] = filters.function_path[1])
    /\ filters.success # None =>
           (r.success = None \/ r.success[1] = (IF filters.success[1] THEN 1 ELSE 0))
    /\ (filters.levels # None /\ filters.levels[1] # <<>>) =>
           (r.level = None
            \/ \E i \in 1..Len(filters.levels[1]) : filters.levels[1][i] = r.level[1])

\* The WHERE clauses built from the filters (commands.rs:124-162); a comparison
\* with NULL is not true
FilterWhere(filters, r) ==
    /\ filters.deployment # None => r.deployment = filters.deployment[1]
    /\ filters.start_ts # None => r.ts >= filters.start_ts[1]
    /\ filters.end_ts # None => r.ts <= filters.end_ts[1]
    /\ filters.request_id # None =>
           (r.request_id # None /\ r.request_id[1] = filters.request_id[1])
    /\ filters.function_path # None =>
           (r.function_path # None /\ r.function_path[1] = filters.function_path[1])
    /\ filters.success # None =>
           (r.success # None /\ r.success[1] = (IF filters.success[1] THEN 1 ELSE 0))
    /\ (filters.levels # None /\ filters.levels[1] # <<>>) =>
           (r.level # None
            /\ \E i \in 1..Len(filters.levels[1]) : filters.levels[1][i] = r.level[1])

\* The cursor clause with `<=` in place of `<`
CursorWhereInclusive(parsed, r) ==
    (parsed.ts # None /\ parsed.id # None) =>
        \/ r.ts < parsed.ts[1]
        \/ (r.ts = parsed.ts[1] /\ (r.id = parsed.id[1] \/ IdLess(r.id, parsed.id[1])))

\* "(ts < ? OR (ts = ? AND id < ?))" (commands.rs:165-170)
CursorWhere(parsed, r) ==
    (parsed.ts # None /\ parsed.id # None) =>
        \/ r.ts < parsed.ts[1]
        \/ (r.ts = parsed.ts[1] /\ IdLess(r.id, parsed.id[1]))

RECURSIVE OrderByTsIdDesc(_)
\* ORDER BY ts DESC, id DESC
OrderByTsIdDesc(rows) ==
    IF rows = {} THEN <<>>
    ELSE LET top == CHOOSE r \in rows :
                        \A q \in rows \ {r} :
                            q.ts < r.ts \/ (q.ts = r.ts /\ IdLess(q.id, r.id))
         IN  <<top>> \o OrderByTsIdDesc(rows \ {top})

\* LIMIT n: a negative n is no limit (SQLite)
SqlLimit(rows, n) == IF n < 0 THEN rows ELSE SubSeq(rows, 1, Min(n, Len(rows)))

\* the LogEntry read from a row: `success` is stored as 0/1
RowEntry(r) ==
    [r EXCEPT !.success = IF r.success = None THEN None ELSE Some(r.success[1] # 0)]

\* `logs.len() > limit as usize`: a negative i32 cast to usize is above any length
GtAsUsize(len, limit) == limit >= 0 /\ len > limit

\* SELECT COUNT(*) FROM logs {where_clause}: the clause built above, which
\* includes the cursor clause (commands.rs:231-237)
CountWhere(filters, parsed) ==
    Cardinality({r \in logs : FilterWhere(filters, r) /\ CursorWhere(parsed, r)})

QueryResult(filters, limit_arg, cursor) ==
    LET limit == Min(unwrap_or(limit_arg, DefaultLimit), MaxLimit)
        parsed == parse_cursor(cursor)
        fetched == SqlLimit(OrderByTsIdDesc({r \in logs : FilterWhere(filters, r)
                                                          /\ CursorWhere(parsed, r)}),
                            limit + 1)
        has_more == GtAsUsize(Len(fetched), limit)
        page == IF has_more THEN SubSeq(fetched, 1, Len(fetched) - 1) ELSE fetched
    IN  [logs |-> [i \in 1..Len(page) |-> RowEntry(page[i])],
         total_count |-> CountWhere(filters, parsed),
         has_more |-> has_more,
         cursor |-> IF page = <<>> THEN None
                    ELSE Some(format_cursor(page[Len(page)]))]

\* The pages a client has collected: a call without a cursor starts over, a call
\* with the cursor of the page before (same filters and limit) adds a page.
Paging(filters, limit, cursor, result) ==
    IF cursor = None
    THEN Some([filters |-> filters, limit |-> limit, acc |-> result.logs,
               pages |-> 1, done |-> ~result.has_more])
    ELSE IF /\ trav # None /\ ~trav[1].done /\ last.op = "query"
            /\ cursor = last.result.cursor
            /\ filters = trav[1].filters /\ limit = trav[1].limit
    THEN Some([trav[1] EXCEPT !.acc = @ \o result.logs, !.pages = @ + 1,
                              !.done = ~result.has_more])
    ELSE None

query_logs(filters, limit, cursor) ==
    LET result == QueryResult(filters, limit, cursor)
    IN  /\ last' = [op |-> "query", filters |-> filters, limit |-> limit,
                    cursor |-> cursor, ok |-> TRUE, result |-> result]
        /\ trav' = Paging(filters, limit, cursor, result)
        /\ UNCHANGED <<logs, now, fin, sqlite_master, rowid, logs_fts, settings, lock, pc>>

(***************************************************************************)
(* commands.rs: search_logs, and the index of db.rs                        *)
(***************************************************************************)
RECURSIVE replace_quote(_)
\* query.replace('"', "\"\"")
replace_quote(s) ==
    IF s = <<>> THEN <<>>
    ELSE (IF s[1] = 34 THEN <<34, 34>> ELSE <<s[1]>>) \o replace_quote(Tail(s))

RECURSIVE trim_start(_)
trim_start(s) == IF s # <<>> /\ IsSpace(s[1]) THEN trim_start(Tail(s)) ELSE s
RECURSIVE trim_end(_)
trim_end(s) == IF s # <<>> /\ IsSpace(s[Len(s)]) THEN trim_end(Chop(s, 1)) ELSE s
\* no trimming at all
no_trim(s) == s
trim(s) == trim_end(trim_start(s))

\* MATCH that takes every index entry
FtsMatchAll(fts_query, e) == TRUE

\* logs_fts MATCH ?  for a query of bare words, quoted or not: every word is
\* among the tokens of the index entry; a query without a word matches nothing
FtsMatch(fts_query, e) ==
    /\ Tokenize(fts_query) # {}
    /\ Tokenize(fts_query) \subseteq IndexedTokens(e)

\* FROM logs_fts JOIN logs ON logs.rowid = logs_fts.rowid WHERE logs_fts MATCH ?
MatchJoin(fts_query) ==
    {r \in logs : \E e \in logs_fts : e.rowid = rowid[r.id] /\ FtsMatch(fts_query, e)}

\* the search clauses with the request_id filter applied as well
SearchWhereRequestId(filters, r) ==
    /\ filters.deployment # None => r.deployment = filters.deployment[1]
    /\ filters.start_ts # None => r.ts >= filters.start_ts[1]
    /\ filters.end_ts # None => r.ts <= filters.end_ts[1]
    /\ filters.request_id # None => r.request_id = filters.request_id

\* The clauses search_logs adds to the MATCH (commands.rs:274-287)
SearchWhere(filters, r) ==
    /\ filters.deployment # None => r.deployment = filters.deployment[1]
    /\ filters.start_ts # None => r.ts >= filters.start_ts[1]
    /\ filters.end_ts # None => r.ts <= filters.end_ts[1]

\* ORDER BY logs.ts DESC LIMIT n: rows with equal ts come in any order, so
\* these are the sequences the statement may return
OrderByTsDescLimit(rows, n) ==
    LET k == IF n < 0 THEN Cardinality(rows) ELSE Min(n, Cardinality(rows))
    IN  {s \in [1..k -> rows] :
            /\ \A i, j \in 1..k : i < j => (s[i] # s[j] /\ s[i].ts >= s[j].ts)
            /\ \A r \in rows : (\A i \in 1..k : s[i] # r) => \A i \in 1..k : s[i].ts >= r.ts}

S_quote == <<34>>                                 \* a double quote
SearchTexts == {S_boom, S_failed, S_Good, S_r1, S_blank, S_empty, S_quote}

SearchFilterSet ==
    {NoFilters,
     [NoFilters EXCEPT !.deployment = Some(S_d1)],
     [NoFilters EXCEPT !.start_ts = Some(1000), !.end_ts = Some(1000)],
     [NoFilters EXCEPT !.request_id = Some(S_r1)],
     [NoFilters EXCEPT !.levels = Some(<<S_INFO>>), !.success = Some(TRUE)]}

\* a total that counts every matching row
CountFound(page, found) == Cardinality(found)

\* `let total_count = logs.len() as i64` (commands.rs:344)
SearchTotalCount(page, found) == Len(page)

search_logs(query, filters, limit_arg, cursor) ==
    LET limit == Min(unwrap_or(limit_arg, DefaultLimit), MaxLimit)
        fts_query == trim(replace_quote(query))
        found == {r \in MatchJoin(fts_query) : SearchWhere(filters, r)}
    IN  /\ IF fts_query = <<>>
           THEN last' = [op |-> "search", query |-> query, filters |-> filters,
                         limit |-> limit_arg, cursor |-> cursor, ok |-> FALSE,
                         result |-> "Empty search query"]
           ELSE \E page \in OrderByTsDescLimit(found, limit) :
                    last' = [op |-> "search", query |-> query, filters |-> filters,
                             limit |-> limit_arg, cursor |-> cursor, ok |-> TRUE,
                             result |-> [logs |-> [i \in 1..Len(page) |-> RowEntry(page[i])],
                                         total_count |-> SearchTotalCount(page, found),
                                         has_more |-> FALSE,
                                         cursor |-> None]]
        /\ trav' = None
        /\ UNCHANGED <<logs, now, fin, sqlite_master, rowid, logs_fts, settings, lock, pc>>

(***************************************************************************)
(* Table settings (db.rs:90-96): the values are stored as text             *)
(***************************************************************************)
S_30 == <<51, 48>>                   \* '30'
S_true == <<116, 114, 117, 101>>     \* 'true'
S_false == <<102, 97, 108, 115, 101>> \* 'false'

RECURSIVE Digits(_)
Digits(n) == IF n < 10 THEN <<48 + n>> ELSE Digits(n \div 10) \o <<48 + (n % 10)>>
\* i32::to_string
i32_to_string(n) == IF n < 0 THEN <<45>> \o Digits(0 - n) ELSE Digits(n)

IsDigit(b) == b >= 48 /\ b <= 57
RECURSIVE DigitsValue(_, _)
DigitsValue(s, acc) ==
    IF s = <<>> THEN acc ELSE DigitsValue(Tail(s), (acc * 10) + (s[1] - 48))
\* str::parse::<i32>: an optional sign and decimal digits; anything else is
\* an error.  Texts of ten digits or more, which may overflow, are errors here.
parse_i32(s) ==
    LET signed == s # <<>> /\ s[1] \in {43, 45}
        body == IF signed THEN Tail(s) ELSE s
    IN  IF body = <<>> \/ Len(body) > 9 \/ \E i \in 1..Len(body) : ~IsDigit(body[i])
        THEN None
        ELSE Some(IF s[1] = 45 THEN 0 - DigitsValue(body, 0) ELSE DigitsValue(body, 0))

\* Table settings (db.rs:90-93) is a set of rows [key, value]
SettingsRow(key, value) == [key |-> key, value |-> value]

\* an insert that overwrites the value of a key that is there
InsertOrResetSetting(table, key, value) ==
    {r \in table : r.key # key} \cup {SettingsRow(key, value)}

\* INSERT OR IGNORE INTO settings (db.rs:95-96): no row goes in when the key
\* is there
InsertOrIgnoreSetting(table, key, value) ==
    IF \E r \in table : r.key = key THEN table
    ELSE table \cup {SettingsRow(key, value)}

\* plain INSERT semantics without the conflict clause: a second row
InsertSetting(table, key, value) == table \cup {SettingsRow(key, value)}

\* INSERT OR REPLACE INTO settings (commands.rs:503, 509): the row of the key
\* is replaced
InsertOrReplaceSetting(table, key, value) ==
    {r \in table : r.key # key} \cup {SettingsRow(key, value)}

\* query_row("SELECT value FROM settings WHERE key = ?"): the value of the
\* first row, or the error QueryReturnedNoRows (None here)
SelectValue(table, key) ==
    IF \E r \in table : r.key = key
    THEN Some((CHOOSE r \in table : r.key = key).value)
    ELSE None

\* the settings rows of a store that run_migrations has made
DefaultSettings ==
    InsertOrIgnoreSetting(InsertOrIgnoreSetting({}, "retention_days", S_30),
                          "enabled", S_true)

(***************************************************************************)
(* run_migrations (db.rs:49-134)                                           *)
(***************************************************************************)
SchemaObject(type, name) == [type |-> type, name |-> name]

\* what the batch of db.rs:53-93 creates
Tables ==
    {SchemaObject("table", "logs"), SchemaObject("table", "logs_fts"),
     SchemaObject("table", "settings")}
Indexes ==
    {SchemaObject("index", n) :
        n \in {"idx_logs_ts", "idx_logs_deployment_ts", "idx_logs_request_id",
               "idx_logs_function_ts", "idx_logs_level_ts", "idx_logs_success_ts"}}
\* what the batch of db.rs:113-128 creates
Triggers == {SchemaObject("trigger", n) : n \in {"logs_ai", "logs_ad", "logs_au"}}

\* the schema of a store that run_migrations has made
Schema == Tables \cup Indexes \cup Triggers

\* CREATE ... IF NOT EXISTS: nothing happens when the object is there
CreateIfNotExists(master, objects) == master \cup objects

\* SELECT COUNT(*) > 0 FROM sqlite_master WHERE type='trigger' AND name='logs_ai'
TriggerExists(master) == SchemaObject("trigger", "logs_ai") \in master

\* CREATE TRIGGER has no IF NOT EXISTS: it is an error when one of the
\* triggers is there, and the triggers before it in the batch stay created
CreateTriggers(master) ==
    IF SchemaObject("trigger", "logs_ai") \in master THEN [ok |-> FALSE, master |-> master]
    ELSE IF SchemaObject("trigger", "logs_ad") \in master
         THEN [ok |-> FALSE, master |-> master \cup {SchemaObject("trigger", "logs_ai")}]
    ELSE IF SchemaObject("trigger", "logs_au") \in master
         THEN [ok |-> FALSE,
               master |-> master \cup {SchemaObject("trigger", "logs_ai"),
                                       SchemaObject("trigger", "logs_ad")}]
    ELSE [ok |-> TRUE, master |-> master \cup Triggers]

\* run_migrations on the content of a database file: the rows of logs, the
\* index and the rowids are touched by no statement of it
run_migrations(conn) ==
    LET created == CreateIfNotExists(conn.sqlite_master, Tables \cup Indexes)
        defaults == InsertOrIgnoreSetting(
                        InsertOrIgnoreSetting(conn.settings, "retention_days", S_30),
                        "enabled", S_true)
        triggers == IF TriggerExists(created) THEN [ok |-> TRUE, master |-> created]
                    ELSE CreateTriggers(created)
    IN  [ok |-> triggers.ok,
         conn |-> [conn EXCEPT !.sqlite_master = triggers.master,
                               !.settings = defaults]]

\* The threads that call into the store: two callers of the commands and the
\* retention scheduler
Callers == {"c1", "c2"}
Scheduler == "scheduler"
Threads == Callers \cup {Scheduler}
Idle == [op |-> "idle"]

\* time passes
Tick ==
    /\ now' \in {t \in ClockValues : t > now}
    /\ UNCHANGED <<logs, last, trav, fin, sqlite_master, rowid, logs_fts, settings, lock, pc>>

\* the caller has read the result of its last call
Consume ==
    /\ last.op # "none"
    /\ last' = [op |-> "none"]
    /\ trav' = None
    /\ UNCHANGED <<logs, now, fin, sqlite_master, rowid, logs_fts, settings, lock, pc>>

Init ==
    /\ logs = {}
    /\ now = Now0
    /\ last = [op |-> "none"]
    /\ trav = None
    /\ rowid = <<>>
    /\ logs_fts = {}
    /\ settings = DefaultSettings
    /\ lock = None
    /\ pc = [t \in Threads |-> Idle]
    /\ fin = None
    /\ sqlite_master = Schema

\* A caller issues a command after reading the result of its last one, or
\* ingests again right after an ingest into the same deployment: the same
\* batch once more, or one event.
Next ==
    \/ /\ last.op = "none"
       /\ \E entries \in Batches, deployment \in Deployments :
              ingest_logs(entries, deployment, {})
    \/ /\ last.op = "ingest"
       /\ \E entries \in {last.logs} \cup {<<e>> : e \in RetryEvents} :
              ingest_logs(entries, last.deployment, {})
    \/ /\ last.op = "none"
       /\ \E days \in DaysSet : delete_logs_older_than(days)
    \/ /\ last.op = "none"
       /\ clear_all_logs
    \/ Tick
    \/ Consume

Spec == Init /\ [][Next]_vars

(***************************************************************************)
(* The commands and the retention scheduler as concurrent threads that     *)
(* share the connection behind a Mutex (db.rs:7).  A step is taking the    *)
(* lock, one SQL statement, or returning (which drops the guard).          *)
(***************************************************************************)
\* a Mutex that never makes a thread wait
CanLockAlways(t) == TRUE

\* db.lock() returns once no other thread holds the guard
CanLock(t) == lock = None

\* a guard given up after every row
ReleasedAfterRow(t) == None

\* the guard `conn` lives until ingest_logs returns: it is held after a row
AfterRow(t) == Some(t)

store_vars == <<logs, rowid, logs_fts, settings>>
\* what no command changes once the connection is open
seq_vars == <<last, trav, fin, sqlite_master>>

\* a thread that panicked with the guard in its hands: the unwinding drops
\* the guard and leaves the mutex poisoned
Panicked(where) == [op |-> "panicked", done |-> FALSE, at |-> where]

Poisoned == \E t \in Threads : pc[t].op = "panicked"

\* `let conn = db.lock()...`: thread t enters a command with the guard
Lock(t, call) ==
    /\ CanLock(t)
    /\ ~Poisoned
    /\ lock' = Some(t)
    /\ pc' = [pc EXCEPT ![t] = call]
    /\ UNCHANGED <<store_vars, seq_vars, now>>

\* the command returns: the guard is dropped, the result goes to the caller
Return(t) ==
    /\ t \in Callers
    /\ pc[t].op # "idle" /\ pc[t].done
    /\ lock' = None
    /\ pc' = [pc EXCEPT ![t] = Idle]
    /\ UNCHANGED <<store_vars, seq_vars, now>>

ConcEvents == {EvErr, EvBoom}
ConcBatches == UNION {[1..n -> ConcEvents] : n \in 1..MaxBatch}

\* ingest_logs: lock, `now`, then one INSERT OR IGNORE per event
IngestCall(t, entries, deployment) ==
    /\ pc[t] = Idle
    /\ Lock(t, [op |-> "ingest", done |-> FALSE, logs |-> entries,
                deployment |-> deployment, at |-> now, i |-> 1,
                result |-> NoCounts, start |-> Db])
    /\ \E run \in {IngestLoop(Db, entries, 1, deployment, now, {}, NoCounts)} :
          /\ Cardinality(run.db.logs) <= MaxRows
          /\ \A k \in DOMAIN run.db.rowid : run.db.rowid[k] <= MaxRowid

\* an ingest that passes over its rows while the stored `enabled` is false
IngestRowIfEnabled(t) ==
    /\ pc[t].op = "ingest" /\ ~pc[t].done
    /\ \E done \in {IF \E s \in settings : s.key = "enabled" /\ s.value = S_false
                    THEN [db |-> Db, rows |-> 0]
                    ELSE InsertRow(Db, LogRow(pc[t].logs[pc[t].i], pc[t].deployment,
                                              pc[t].at))} :
          /\ logs' = done.db.logs
          /\ rowid' = done.db.rowid
          /\ logs_fts' = done.db.logs_fts
          /\ pc' = [pc EXCEPT ![t] =
                       [@ EXCEPT !.i = @ + 1,
                                 !.done = (pc[t].i = Len(pc[t].logs)),
                                 !.result = IF done.rows > 0
                                            THEN [@ EXCEPT !.inserted = @ + 1]
                                            ELSE [@ EXCEPT !.duplicates = @ + 1]]]
    /\ lock' = AfterRow(t)
    /\ UNCHANGED <<settings, seq_vars, now>>

IngestRow(t) ==
    /\ pc[t].op = "ingest" /\ ~pc[t].done
    /\ \E done \in {InsertRow(Db, LogRow(pc[t].logs[pc[t].i], pc[t].deployment, pc[t].at))} :
          /\ logs' = done.db.logs
          /\ rowid' = done.db.rowid
          /\ logs_fts' = done.db.logs_fts
          /\ pc' = [pc EXCEPT ![t] =
                       [@ EXCEPT !.i = @ + 1,
                                 !.done = (pc[t].i = Len(pc[t].logs)),
                                 !.result = IF done.rows > 0
                                            THEN [@ EXCEPT !.inserted = @ + 1]
                                            ELSE [@ EXCEPT !.duplicates = @ + 1]]]
    /\ lock' = AfterRow(t)
    /\ UNCHANGED <<settings, seq_vars, now>>

\* a statement that gives the database `db`
Write(db) ==
    /\ logs' = db.logs
    /\ rowid' = db.rowid
    /\ logs_fts' = db.logs_fts

\* delete_logs_older_than: DELETE, then the WAL checkpoint (no rows change)
DeleteCall(t, days) ==
    /\ pc[t] = Idle
    /\ Lock(t, [op |-> "delete", done |-> FALSE, days |-> days, result |-> 0])

DeleteStmt(t) ==
    /\ pc[t].op = "delete" /\ ~pc[t].done
    /\ \E done \in {DeleteOlder(logs, CutoffTs(now, pc[t].days))} :
          /\ Write(DeleteRows(Db, done))
          /\ pc' = [pc EXCEPT ![t] = [@ EXCEPT !.done = TRUE, !.result = done.rows]]
    /\ UNCHANGED <<settings, lock, seq_vars, now>>

\* clear_all_logs: DELETE FROM logs, then VACUUM
ClearCall(t) ==
    /\ pc[t] = Idle
    /\ Lock(t, [op |-> "clear", done |-> FALSE])

ClearStmts(t) ==
    /\ pc[t].op = "clear" /\ ~pc[t].done
    /\ Write(Vacuum(DeleteRows(Db, DeleteAll(logs))))
    /\ pc' = [pc EXCEPT ![t] = [@ EXCEPT !.done = TRUE]]
    /\ UNCHANGED <<settings, lock, seq_vars, now>>

\* INSERT INTO logs_fts(logs_fts) VALUES('rebuild'): the index is made anew
\* from the rows of the content table
FtsRebuild(db) ==
    [db EXCEPT !.logs_fts = {FtsValues(db.rowid[r.id], r) : r \in db.logs}]

\* optimize_log_db: WAL checkpoint, index rebuild, VACUUM
OptimizeCall(t) ==
    /\ pc[t] = Idle
    /\ Lock(t, [op |-> "optimize", done |-> FALSE])

OptimizeStmts(t) ==
    /\ pc[t].op = "optimize" /\ ~pc[t].done
    /\ Write(Vacuum(FtsRebuild(Db)))
    /\ pc' = [pc EXCEPT ![t] = [@ EXCEPT !.done = TRUE]]
    /\ UNCHANGED <<settings, lock, seq_vars, now>>

\* LogStoreSettings values the callers write
SettingsArgs == {[retention_days |-> 1, enabled |-> FALSE],
                 [retention_days |-> 0, enabled |-> TRUE]}

\* set_log_store_settings: one INSERT OR REPLACE per key
SetSettingsCall(t, new) ==
    /\ pc[t] = Idle
    /\ Lock(t, [op |-> "set_settings", done |-> FALSE, settings |-> new, step |-> 1])

SetRetentionDays(t) ==
    /\ pc[t].op = "set_settings" /\ ~pc[t].done
    /\ pc[t].step = 1
    /\ settings' = InsertOrReplaceSetting(settings, "retention_days",
                                          i32_to_string(pc[t].settings.retention_days))
    /\ pc' = [pc EXCEPT ![t] = [@ EXCEPT !.step = 2]]
    /\ UNCHANGED <<logs, rowid, logs_fts, lock, seq_vars, now>>

SetEnabled(t) ==
    /\ pc[t].op = "set_settings" /\ ~pc[t].done
    /\ pc[t].step = 2
    /\ settings' = InsertOrReplaceSetting(settings, "enabled",
                                          IF pc[t].settings.enabled THEN S_true
                                          ELSE S_false)
    /\ pc' = [pc EXCEPT ![t] = [@ EXCEPT !.done = TRUE]]
    /\ UNCHANGED <<logs, rowid, logs_fts, lock, seq_vars, now>>

\* SELECT value ... 'retention_days', parsed, 30 when it does not parse
\* a read that takes a stored text without digits for 0
ReadRetentionDaysLenient ==
    LET val == SelectValue(settings, "retention_days")
    IN  IF val = None THEN 30 ELSE unwrap_or(parse_i32(val[1]), 0)

ReadRetentionDays ==
    LET val == SelectValue(settings, "retention_days")
    IN  IF val = None THEN 30 ELSE unwrap_or(parse_i32(val[1]), 30)

\* SELECT value ... 'enabled', compared with "true"; true when no row
ReadEnabled ==
    LET val == SelectValue(settings, "enabled")
    IN  IF val = None THEN TRUE ELSE val[1] = S_true

\* get_log_store_settings: one SELECT per key
GetSettingsCall(t) ==
    /\ pc[t] = Idle
    /\ Lock(t, [op |-> "get_settings", done |-> FALSE, result |-> <<>>])

GetRetentionDays(t) ==
    /\ pc[t].op = "get_settings" /\ ~pc[t].done /\ pc[t].result = <<>>
    /\ pc' = [pc EXCEPT ![t] = [@ EXCEPT !.result = <<ReadRetentionDays>>]]
    /\ UNCHANGED <<store_vars, lock, seq_vars, now>>

GetEnabled(t) ==
    /\ pc[t].op = "get_settings" /\ ~pc[t].done /\ pc[t].result # <<>>
    /\ pc' = [pc EXCEPT ![t] =
                 [@ EXCEPT !.done = TRUE,
                           !.result = [retention_days |-> pc[t].result[1],
                                       enabled |-> ReadEnabled]]]
    /\ UNCHANGED <<store_vars, lock, seq_vars, now>>

\* get_log_stats: COUNT(*), then MIN(ts) and MAX(ts), then the counts by
\* deployment (the size of the database file is not part of the model)
StatsCall(t) ==
    /\ pc[t] = Idle
    /\ Lock(t, [op |-> "stats", done |-> FALSE, step |-> 1,
                result |-> [total_logs |-> 0, oldest_ts |-> None, newest_ts |-> None,
                            logs_by_deployment |-> {}]])

StatsTotal(t) ==
    /\ pc[t].op = "stats" /\ pc[t].step = 1
    /\ pc' = [pc EXCEPT ![t] = [@ EXCEPT !.step = 2,
                                         !.result.total_logs = Cardinality(logs)]]
    /\ UNCHANGED <<store_vars, lock, seq_vars, now>>

\* MIN(ts) and MAX(ts) read with the NULL of an empty table taken as 0
StatsMinMaxNullAsZero(t) ==
    /\ pc[t].op = "stats" /\ pc[t].step = 2
    /\ pc' = [pc EXCEPT ![t] =
                 [@ EXCEPT !.step = 3,
                           !.result.oldest_ts =
                               IF logs = {} THEN Some(0)
                               ELSE Some(CHOOSE m \in {r.ts : r \in logs} :
                                             \A r \in logs : m <= r.ts),
                           !.result.newest_ts =
                               IF logs = {} THEN Some(0)
                               ELSE Some(CHOOSE m \in {r.ts : r \in logs} :
                                             \A r \in logs : m >= r.ts)]]
    /\ UNCHANGED <<store_vars, lock, seq_vars, now>>

\* SELECT MIN(ts), SELECT MAX(ts) (commands.rs:432-438): over no rows the
\* value is NULL, row.get::<i64> fails and .ok() gives None
StatsMinMax(t) ==
    /\ pc[t].op = "stats" /\ pc[t].step = 2
    /\ pc' = [pc EXCEPT ![t] =
                 [@ EXCEPT !.step = 3,
                           !.result.oldest_ts =
                               IF logs = {} THEN None
                               ELSE Some(CHOOSE m \in {r.ts : r \in logs} :
                                             \A r \in logs : m <= r.ts),
                           !.result.newest_ts =
                               IF logs = {} THEN None
                               ELSE Some(CHOOSE m \in {r.ts : r \in logs} :
                                             \A r \in logs : m >= r.ts)]]
    /\ UNCHANGED <<store_vars, lock, seq_vars, now>>

StatsByDeployment(t) ==
    /\ pc[t].op = "stats" /\ pc[t].step = 3
    /\ pc' = [pc EXCEPT ![t] =
                 [@ EXCEPT !.step = 4, !.done = TRUE,
                           !.result.logs_by_deployment =
                               {<<d, Cardinality({r \in logs : r.deployment = d})>> :
                                   d \in {r.deployment : r \in logs}}]]
    /\ UNCHANGED <<store_vars, lock, seq_vars, now>>

\* query_logs: the SELECT of the page, then the COUNT(*)
QueryCall(t, filters, limit) ==
    /\ pc[t] = Idle
    /\ Lock(t, [op |-> "query", done |-> FALSE, filters |-> filters, limit |-> limit,
                result |-> <<>>])

QuerySelect(t) ==
    /\ pc[t].op = "query" /\ ~pc[t].done /\ pc[t].result = <<>>
    /\ pc' = [pc EXCEPT ![t] =
                 [@ EXCEPT !.result = <<QueryResult(pc[t].filters, pc[t].limit, None)>>]]
    /\ UNCHANGED <<store_vars, lock, seq_vars, now>>

QueryCount(t) ==
    /\ pc[t].op = "query" /\ ~pc[t].done /\ pc[t].result # <<>>
    /\ pc' = [pc EXCEPT ![t] =
                 [@ EXCEPT !.done = TRUE,
                           !.result = [pc[t].result[1] EXCEPT
                                          !.total_count =
                                              CountWhere(pc[t].filters, parse_cursor(None))]]]
    /\ UNCHANGED <<store_vars, lock, seq_vars, now>>

\* search_logs: one SELECT over the index joined with the table
SearchCall(t, query) ==
    /\ pc[t] = Idle
    /\ Lock(t, [op |-> "search", done |-> FALSE, query |-> query, result |-> <<>>])

\* `if fts_query.is_empty() { return Err("Empty search query") }`
\* (commands.rs:266-268): no statement runs
SearchEmpty(t) ==
    /\ pc[t].op = "search" /\ ~pc[t].done
    /\ trim(replace_quote(pc[t].query)) = <<>>
    /\ pc' = [pc EXCEPT ![t] = [@ EXCEPT !.done = TRUE]]
    /\ UNCHANGED <<store_vars, lock, seq_vars, now>>

SearchSelect(t) ==
    /\ pc[t].op = "search" /\ ~pc[t].done
    /\ trim(replace_quote(pc[t].query)) # <<>>
    /\ \E page \in OrderByTsDescLimit(MatchJoin(trim(replace_quote(pc[t].query))),
                                       MaxLimit) :
          pc' = [pc EXCEPT ![t] =
                    [@ EXCEPT !.done = TRUE,
                              !.result = [i \in 1..Len(page) |-> RowEntry(page[i])]]]
    /\ UNCHANGED <<store_vars, lock, seq_vars, now>>

\* get_log_by_id: SELECT ... WHERE id = ?
GetByIdCall(t, id) ==
    /\ pc[t] = Idle
    /\ Lock(t, [op |-> "get_log_by_id", done |-> FALSE, id |-> id, result |-> None])

GetByIdSelect(t) ==
    /\ pc[t].op = "get_log_by_id" /\ ~pc[t].done
    /\ pc' = [pc EXCEPT ![t] =
                 [@ EXCEPT !.done = TRUE,
                           !.result = IF \E r \in logs : r.id = pc[t].id
                                      THEN Some(RowEntry(CHOOSE r \in logs : r.id = pc[t].id))
                                      ELSE None]]
    /\ UNCHANGED <<store_vars, lock, seq_vars, now>>

(***************************************************************************)
(* retention.rs: the scheduler task.  It sweeps at startup and after every *)
(* sleep of 24 hours; each sweep is get_retention_days, then               *)
(* run_retention_once, each under its own lock.                            *)
(***************************************************************************)
\* how many sleeps of the scheduler the model follows
MaxWakes == 1

Startup == [op |-> "startup"]

GetRetentionDaysCall ==
    /\ pc[Scheduler].op \in {"startup", "woken"}
    /\ Lock(Scheduler, [op |-> "get_retention_days", done |-> FALSE, days |-> 0])

GetRetentionDaysSelect ==
    /\ pc[Scheduler].op = "get_retention_days" /\ ~pc[Scheduler].done
    /\ pc' = [pc EXCEPT ![Scheduler] = [@ EXCEPT !.done = TRUE, !.days = ReadRetentionDays]]
    /\ UNCHANGED <<store_vars, lock, seq_vars, now>>

GetRetentionDaysReturn ==
    /\ pc[Scheduler].op = "get_retention_days" /\ pc[Scheduler].done
    /\ lock' = None
    /\ pc' = [pc EXCEPT ![Scheduler] = [op |-> "sweep", days |-> pc[Scheduler].days]]
    /\ UNCHANGED <<store_vars, seq_vars, now>>

\* a sweep that reads retention_days again when it deletes
RunRetentionCallFresh ==
    /\ pc[Scheduler].op = "sweep"
    /\ Lock(Scheduler, [op |-> "run_retention_once", done |-> FALSE,
                        days |-> ReadRetentionDays, result |-> 0])

RunRetentionCall ==
    /\ pc[Scheduler].op = "sweep"
    /\ Lock(Scheduler, [op |-> "run_retention_once", done |-> FALSE,
                        days |-> pc[Scheduler].days, result |-> 0])

\* a sweep that also deletes the rows at the cutoff
RunRetentionDeleteOrEqual ==
    /\ pc[Scheduler].op = "run_retention_once" /\ ~pc[Scheduler].done
    /\ \E done \in {DeleteOlderOrEqual(logs, CutoffTs(now, pc[Scheduler].days))} :
          /\ Write(DeleteRows(Db, done))
          /\ pc' = [pc EXCEPT ![Scheduler] = [@ EXCEPT !.done = TRUE, !.result = done.rows]]
    /\ UNCHANGED <<settings, lock, seq_vars, now>>

RunRetentionDelete ==
    /\ pc[Scheduler].op = "run_retention_once" /\ ~pc[Scheduler].done
    /\ \E done \in {DeleteOlder(logs, CutoffTs(now, pc[Scheduler].days))} :
          /\ Write(DeleteRows(Db, done))
          /\ pc' = [pc EXCEPT ![Scheduler] = [@ EXCEPT !.done = TRUE, !.result = done.rows]]
    /\ UNCHANGED <<settings, lock, seq_vars, now>>

\* a loop without the sleep: the task is ready for the next sweep at once
RunRetentionReturnNoSleep ==
    /\ pc[Scheduler].op = "run_retention_once" /\ pc[Scheduler].done
    /\ lock' = None
    /\ pc' = [pc EXCEPT ![Scheduler] = [op |-> "woken"]]
    /\ UNCHANGED <<store_vars, seq_vars, now>>

\* drop(conn_guard), and the task goes to sleep
RunRetentionReturn ==
    /\ pc[Scheduler].op = "run_retention_once" /\ pc[Scheduler].done
    /\ lock' = None
    /\ pc' = [pc EXCEPT ![Scheduler] = [op |-> "sleeping"]]
    /\ UNCHANGED <<store_vars, seq_vars, now>>

\* tokio::time::sleep(24 h) is over
Wake ==
    /\ pc[Scheduler].op = "sleeping"
    /\ now + DayMs <= Now0 + 1 + (MaxWakes * DayMs)
    /\ now' = now + DayMs
    /\ pc' = [pc EXCEPT ![Scheduler] = [op |-> "woken"]]
    /\ UNCHANGED <<store_vars, lock, seq_vars>>

InitConc ==
    /\ logs = {}
    /\ now = Now0
    /\ last = [op |-> "none"]
    /\ trav = None
    /\ rowid = <<>>
    /\ logs_fts = {}
    /\ settings = DefaultSettings
    /\ lock = None
    /\ fin = None
    /\ sqlite_master = Schema
    /\ pc = [t \in Threads |-> IF t = Scheduler THEN Startup ELSE Idle]

NextConc ==
    \/ \E t \in Callers, entries \in ConcBatches : IngestCall(t, entries, S_d1)
    \/ \E t \in Callers : IngestRow(t)
    \/ \E t \in Callers : DeleteCall(t, 1)
    \/ \E t \in Callers : DeleteStmt(t)
    \/ \E t \in Callers : ClearCall(t)
    \/ \E t \in Callers : ClearStmts(t)
    \/ \E t \in Callers : OptimizeCall(t)
    \/ \E t \in Callers : OptimizeStmts(t)
    \/ \E t \in Callers, new \in SettingsArgs : SetSettingsCall(t, new)
    \/ \E t \in Callers : SetRetentionDays(t)
    \/ \E t \in Callers : SetEnabled(t)
    \/ \E t \in Callers : GetSettingsCall(t)
    \/ \E t \in Callers : GetRetentionDays(t)
    \/ \E t \in Callers : GetEnabled(t)
    \/ \E t \in Callers : StatsCall(t)
    \/ \E t \in Callers : StatsTotal(t)
    \/ \E t \in Callers : StatsMinMax(t)
    \/ \E t \in Callers : StatsByDeployment(t)
    \/ \E t \in Callers : QueryCall(t, NoFilters, Some(MaxLimit))
    \/ \E t \in Callers : QuerySelect(t)
    \/ \E t \in Callers : QueryCount(t)
    \/ \E t \in Callers, query \in {S_boom, S_x} : SearchCall(t, query)
    \/ \E t \in Callers : SearchSelect(t)
    \/ \E t \in Callers : GetByIdCall(t, LogRow(EvBoom, S_d1, now).id)
    \/ \E t \in Callers : GetByIdSelect(t)
    \/ \E t \in Callers : Return(t)
    \/ GetRetentionDaysCall
    \/ GetRetentionDaysSelect
    \/ GetRetentionDaysReturn
    \/ RunRetentionCall
    \/ RunRetentionDelete
    \/ RunRetentionReturn
    \/ Wake
    \/ Tick

SpecConc == InitConc /\ [][NextConc]_vars

\* The scheduler next to callers that ingest, delete and change settings
NextSched ==
    \/ \E t \in Callers, entries \in ConcBatches : IngestCall(t, entries, S_d1)
    \/ \E t \in Callers : IngestRow(t)
    \/ \E t \in Callers : DeleteCall(t, 1)
    \/ \E t \in Callers : DeleteStmt(t)
    \/ \E t \in Callers, new \in SettingsArgs : SetSettingsCall(t, new)
    \/ \E t \in Callers : SetRetentionDays(t)
    \/ \E t \in Callers : SetEnabled(t)
    \/ \E t \in Callers : Return(t)
    \/ GetRetentionDaysCall
    \/ GetRetentionDaysSelect
    \/ GetRetentionDaysReturn
    \/ RunRetentionCall
    \/ RunRetentionDelete
    \/ RunRetentionReturn
    \/ Wake
    \/ Tick

\* where the scheduler task stands, and where the callers stand
SchedulerAt ==
    <<pc[Scheduler].op, "done" \in DOMAIN pc[Scheduler] /\ pc[Scheduler].done>>

CallerAt(t) ==
    <<pc[t].op, "done" \in DOMAIN pc[t] /\ pc[t].done,
      IF "i" \in DOMAIN pc[t] THEN pc[t].i ELSE 0,
      IF "step" \in DOMAIN pc[t] THEN pc[t].step ELSE 0>>

\* The scheduler task is polled by the async runtime, so each of its steps
\* that is ready is taken; a step that waits in lock() is taken once the
\* mutex is free again and again.  A command that has the lock runs its
\* statements and returns.
SchedulerFairness ==
    /\ SF_SchedulerAt(GetRetentionDaysCall)
    /\ WF_SchedulerAt(GetRetentionDaysSelect)
    /\ WF_SchedulerAt(GetRetentionDaysReturn)
    /\ SF_SchedulerAt(RunRetentionCall)
    /\ WF_SchedulerAt(RunRetentionDelete)
    /\ WF_SchedulerAt(RunRetentionReturn)
    /\ \A t \in Callers :
          /\ WF_CallerAt(t)(IngestRow(t))
          /\ WF_CallerAt(t)(DeleteStmt(t))
          /\ WF_CallerAt(t)(SetRetentionDays(t))
          /\ WF_CallerAt(t)(SetEnabled(t))
          /\ WF_CallerAt(t)(Return(t))

SpecSched == InitConc /\ [][NextSched]_vars /\ SchedulerFairness

(***************************************************************************)
(* Failures: a sweep whose statements fail, a command that panics with the *)
(* guard in its hands, and what lock() gives the threads that come after.  *)
(***************************************************************************)

\* get_log_stats, after its SELECTs: get_db_size calls get_db_path, whose
\* expect() panics when the app data directory cannot be resolved
StatsPanic(t) ==
    /\ pc[t].op = "stats" /\ pc[t].done
    /\ pc' = [pc EXCEPT ![t] = Panicked("get_db_path")]
    /\ lock' = None
    /\ UNCHANGED <<store_vars, seq_vars, now>>

\* db.lock().map_err(..)? of a command on a poisoned mutex: lock() returns
\* Err with the guard inside, the guard is dropped, the command returns
\* Err("Lock error: ..")
LockError(t) ==
    /\ pc[t] = Idle
    /\ CanLock(t)
    /\ Poisoned
    /\ pc' = [pc EXCEPT ![t] = [op |-> "lock_error", done |-> TRUE]]
    /\ UNCHANGED <<store_vars, lock, seq_vars, now>>

\* conn.lock().unwrap() of get_retention_days and of run_retention_once on a
\* poisoned mutex: the unwrap panics and the task ends
SchedulerLockPanic ==
    /\ pc[Scheduler].op \in {"startup", "woken", "sweep"}
    /\ CanLock(Scheduler)
    /\ Poisoned
    /\ pc' = [pc EXCEPT ![Scheduler] = Panicked("lock")]
    /\ UNCHANGED <<store_vars, lock, seq_vars, now>>

\* run_retention_once returns Err (written -1 in result): the DELETE fails
\* and no row goes, or the checkpoint after it fails and the rows are gone
RunRetentionError ==
    /\ pc[Scheduler].op = "run_retention_once" /\ ~pc[Scheduler].done
    /\ \/ UNCHANGED <<logs, rowid, logs_fts>>
       \/ Write(DeleteRows(Db, DeleteOlder(logs, CutoffTs(now, pc[Scheduler].days))))
    /\ pc' = [pc EXCEPT ![Scheduler] = [@ EXCEPT !.done = TRUE, !.result = 0 - 1]]
    /\ UNCHANGED <<settings, lock, seq_vars, now>>

NextPanic ==
    \/ \E t \in Callers, entries \in ConcBatches : IngestCall(t, entries, S_d1)
    \/ \E t \in Callers : IngestRow(t)
    \/ \E t \in Callers : StatsCall(t)
    \/ \E t \in Callers : StatsTotal(t)
    \/ \E t \in Callers : StatsMinMax(t)
    \/ \E t \in Callers : StatsByDeployment(t)
    \/ \E t \in Callers : StatsPanic(t)
    \/ \E t \in Callers : LockError(t)
    \/ \E t \in Callers : Return(t)
    \/ GetRetentionDaysCall
    \/ GetRetentionDaysSelect
    \/ GetRetentionDaysReturn
    \/ RunRetentionCall
    \/ RunRetentionDelete
    \/ RunRetentionError
    \/ RunRetentionReturn
    \/ SchedulerLockPanic
    \/ Wake

SpecPanic == InitConc /\ [][NextPanic]_vars

(***************************************************************************)
(* A statement of delete_logs_older_than (commands.rs:407-413) or of       *)
(* run_retention_once (retention.rs:15-22) fails: map_err(..)? returns     *)
(* Err with the name of the statement.  Each statement is its own          *)
(* transaction, so the DELETE is committed when the checkpoint runs.       *)
(***************************************************************************)
Failed(call, message, table) ==
    [op |-> call.op, done |-> TRUE, days |-> call.days, result |-> 0 - 1,
     error |-> message, start |-> table]

\* a failed checkpoint that takes the DELETE back
DeleteCheckpointFailsRollback(t) ==
    /\ pc[t].op \in {"delete", "run_retention_once"} /\ ~pc[t].done
    /\ pc' = [pc EXCEPT ![t] = Failed(pc[t], "Checkpoint error", logs)]
    /\ UNCHANGED <<store_vars, lock, seq_vars, now>>

\* the DELETE runs, PRAGMA wal_checkpoint(TRUNCATE) fails
DeleteCheckpointFails(t) ==
    /\ pc[t].op \in {"delete", "run_retention_once"} /\ ~pc[t].done
    /\ Write(DeleteRows(Db, DeleteOlder(logs, CutoffTs(now, pc[t].days))))
    /\ pc' = [pc EXCEPT ![t] = Failed(pc[t], "Checkpoint error", logs)]
    /\ UNCHANGED <<settings, lock, seq_vars, now>>

\* the DELETE fails: no row goes, the checkpoint is not run
DeleteFails(t) ==
    /\ pc[t].op \in {"delete", "run_retention_once"} /\ ~pc[t].done
    /\ pc' = [pc EXCEPT ![t] = Failed(pc[t], "Delete error", logs)]
    /\ UNCHANGED <<store_vars, lock, seq_vars, now>>

NextCheckpoint ==
    \/ NextSched
    \/ \E t \in Threads : DeleteCheckpointFails(t)
    \/ \E t \in Threads : DeleteFails(t)

SpecCheckpoint == InitConc /\ [][NextCheckpoint]_vars

(***************************************************************************)
(* The threads at lock(): a command that was invoked waits in db.lock()    *)
(* until the guard is free (commands.rs:16, 256, 401, 424); the scheduler  *)
(* waits in conn.lock() twice per sweep (retention.rs:10, 62).  A command  *)
(* that returns, with Ok or with Err, drops its guard.                     *)
(***************************************************************************)
LockCommands == {"ingest", "delete", "stats", "search", "search blank"}

\* the batch the callers of this part send
LockBatch == <<EvErr, EvBoom>>

\* the command right after its db.lock()
Entered(command) ==
    CASE command = "ingest" ->
             [op |-> "ingest", done |-> FALSE, logs |-> LockBatch, deployment |-> S_d1,
              at |-> now, i |-> 1, result |-> NoCounts, start |-> Db]
      [] command = "delete" -> [op |-> "delete", done |-> FALSE, days |-> 1, result |-> 0]
      [] command = "stats" ->
             [op |-> "stats", done |-> FALSE, step |-> 1,
              result |-> [total_logs |-> 0, oldest_ts |-> None, newest_ts |-> None,
                          logs_by_deployment |-> {}]]
      [] command = "search" ->
             [op |-> "search", done |-> FALSE, query |-> S_boom, result |-> <<>>]
      [] OTHER -> [op |-> "search", done |-> FALSE, query |-> S_blank, result |-> <<>>]

\* the frontend invokes a command: its first statement is db.lock()
Invoke(t, command) ==
    /\ pc[t] = Idle
    /\ pc' = [pc EXCEPT ![t] = [op |-> "lock", done |-> FALSE, command |-> command]]
    /\ UNCHANGED <<store_vars, lock, seq_vars, now>>

\* db.lock() returns the guard
Acquire(t) ==
    /\ pc[t].op = "lock"
    /\ Lock(t, Entered(pc[t].command))

\* db.lock().map_err(..)? on a poisoned mutex, for a command that waits
AcquireError(t) ==
    /\ pc[t].op = "lock"
    /\ CanLock(t)
    /\ Poisoned
    /\ pc' = [pc EXCEPT ![t] = [op |-> "lock_error", done |-> TRUE]]
    /\ UNCHANGED <<store_vars, lock, seq_vars, now>>

NextLock ==
    \/ \E t \in Callers, command \in LockCommands : Invoke(t, command)
    \/ \E t \in Callers : Acquire(t)
    \/ \E t \in Callers : AcquireError(t)
    \/ \E t \in Callers : IngestRow(t)
    \/ \E t \in Callers : DeleteStmt(t)
    \/ \E t \in Threads : DeleteFails(t)
    \/ \E t \in Threads : DeleteCheckpointFails(t)
    \/ \E t \in Callers : StatsTotal(t)
    \/ \E t \in Callers : StatsMinMax(t)
    \/ \E t \in Callers : StatsByDeployment(t)
    \/ \E t \in Callers : StatsPanic(t)
    \/ \E t \in Callers : SearchEmpty(t)
    \/ \E t \in Callers : SearchSelect(t)
    \/ \E t \in Callers : Return(t)
    \/ GetRetentionDaysCall
    \/ GetRetentionDaysSelect
    \/ GetRetentionDaysReturn
    \/ RunRetentionCall
    \/ RunRetentionDelete
    \/ RunRetentionReturn
    \/ SchedulerLockPanic
    \/ Wake

\* The mutex is taken to be fair: a thread that waits in lock() gets the
\* guard when it is free again and again.  A thread that has the guard runs
\* its statements and returns; the scheduler task is polled by the runtime.
LockFairness ==
    /\ SF_SchedulerAt(GetRetentionDaysCall)
    /\ WF_SchedulerAt(GetRetentionDaysSelect)
    /\ WF_SchedulerAt(GetRetentionDaysReturn)
    /\ SF_SchedulerAt(RunRetentionCall)
    /\ WF_SchedulerAt(RunRetentionDelete \/ DeleteFails(Scheduler)
                                         \/ DeleteCheckpointFails(Scheduler))
    /\ WF_SchedulerAt(RunRetentionReturn)
    /\ WF_SchedulerAt(SchedulerLockPanic)
    /\ \A t \in Callers :
          /\ SF_CallerAt(t)(Acquire(t))
          /\ WF_CallerAt(t)(AcquireError(t))
          /\ WF_CallerAt(t)(IngestRow(t))
          /\ WF_CallerAt(t)(DeleteStmt(t) \/ DeleteFails(t) \/ DeleteCheckpointFails(t))
          /\ WF_CallerAt(t)(StatsTotal(t))
          /\ WF_CallerAt(t)(StatsMinMax(t))
          /\ WF_CallerAt(t)(StatsByDeployment(t))
          /\ WF_CallerAt(t)(SearchEmpty(t))
          /\ WF_CallerAt(t)(SearchSelect(t))
          /\ WF_CallerAt(t)(Return(t) \/ StatsPanic(t))

SpecLock == InitConc /\ [][NextLock]_vars /\ LockFairness

(***************************************************************************)
(* get_log_stats (commands.rs:420-461) next to callers that ingest into    *)
(* two deployments, delete and clear                                       *)
(***************************************************************************)
NextStats ==
    \/ \E t \in Callers, entries \in ConcBatches, deployment \in Deployments :
          IngestCall(t, entries, deployment)
    \/ \E t \in Callers : IngestRow(t)
    \/ \E t \in Callers : DeleteCall(t, 1)
    \/ \E t \in Callers : DeleteStmt(t)
    \/ \E t \in Callers : ClearCall(t)
    \/ \E t \in Callers : ClearStmts(t)
    \/ \E t \in Callers : StatsCall(t)
    \/ \E t \in Callers : StatsTotal(t)
    \/ \E t \in Callers : StatsMinMax(t)
    \/ \E t \in Callers : StatsByDeployment(t)
    \/ \E t \in Callers : Return(t)

SpecStats == InitConc /\ [][NextStats]_vars

(***************************************************************************)
(* The store across launches of the app (lib.rs:733-742): setup opens the  *)
(* database file, runs run_migrations and only then are the commands       *)
(* served.  The file outlives the process, and what it holds at a launch   *)
(* is what an earlier launch, or another program, left in it.              *)
(***************************************************************************)
Closed == [op |-> "closed", done |-> FALSE]

\* the connection as run_migrations sees it
Conn ==
    [logs |-> logs, rowid |-> rowid, logs_fts |-> logs_fts, settings |-> settings,
     sqlite_master |-> sqlite_master]

\* texts found under the two keys: written by the app, or not
StoredRetention == {S_30, i32_to_string(0 - 1), S_x, S_empty}
StoredEnabled == {S_true, S_false, S_x}
StoredSettings ==
    {r \cup e : r \in {{}} \cup {{SettingsRow("retention_days", v)} : v \in StoredRetention},
                e \in {{}} \cup {{SettingsRow("enabled", v)} : v \in StoredEnabled}}

\* LogStoreSettings values the callers write: zero and negative days too
SettingsArgsAll == [retention_days : {0 - 1, 0, 7}, enabled : BOOLEAN]

\* the threads once setup is over
Launched == [t \in Threads |-> IF t = Scheduler THEN Startup ELSE Idle]

\* a new file, a file whose first launch ended between the two batches of
\* run_migrations, or the file of a store that has its schema; the rows of
\* settings of such a store may also be rewritten by another program while
\* the app runs, so the commands meet every stored table
InitSettings ==
    /\ logs = {}
    /\ now = Now0
    /\ last = [op |-> "none"]
    /\ trav = None
    /\ rowid = <<>>
    /\ logs_fts = {}
    /\ fin = None
    /\ lock = None
    /\ \/ sqlite_master = {} /\ settings = {} /\ pc = [t \in Threads |-> Closed]
       \/ /\ sqlite_master = Tables \cup Indexes /\ settings = DefaultSettings
          /\ pc = [t \in Threads |-> Closed]
       \/ /\ sqlite_master = Schema /\ settings \in StoredSettings
          /\ pc \in {[t \in Threads |-> Closed], Launched}

\* init_db at setup: run_migrations, then the scheduler is spawned and the
\* commands are served; setup panics and nothing is served when it fails.
\* `last` keeps the content of the file that this launch found.
InitDb ==
    /\ \A t \in Threads : pc[t] = Closed
    /\ \E done \in {run_migrations(Conn)} :
          /\ done.ok
          /\ logs' = done.conn.logs
          /\ rowid' = done.conn.rowid
          /\ logs_fts' = done.conn.logs_fts
          /\ settings' = done.conn.settings
          /\ sqlite_master' = done.conn.sqlite_master
    /\ pc' = Launched
    /\ last' = [op |-> "init_db", conn |-> Conn]
    /\ UNCHANGED <<now, trav, fin, lock>>

\* the app is closed while no command runs
Exit ==
    /\ \A t \in Callers : pc[t] = Idle
    /\ lock = None
    /\ pc' = [t \in Threads |-> Closed]
    /\ UNCHANGED <<store_vars, seq_vars, now, lock>>

NextSettings ==
    \/ InitDb
    \/ Exit
    \/ \E t \in Callers, entries \in ConcBatches : IngestCall(t, entries, S_d1)
    \/ \E t \in Callers : IngestRow(t)
    \/ \E t \in Callers, new \in SettingsArgsAll : SetSettingsCall(t, new)
    \/ \E t \in Callers : SetRetentionDays(t)
    \/ \E t \in Callers : SetEnabled(t)
    \/ \E t \in Callers : GetSettingsCall(t)
    \/ \E t \in Callers : GetRetentionDays(t)
    \/ \E t \in Callers : GetEnabled(t)
    \/ \E t \in Callers : Return(t)

SpecSettings == InitSettings /\ [][NextSettings]_vars

(***************************************************************************)
(* Ingest with a storage engine that fails some INSERTs (Err of            *)
(* conn.execute, commands.rs:79-82), and the retry of the batch            *)
(***************************************************************************)
FaultEvents == {EvBoom, EvBoomPath, EvErr}

FaultBatches == UNION {[1..n -> FaultEvents] : n \in 1..MaxBatch}

NextFault ==
    \/ /\ last.op = "none"
       /\ \E entries \in FaultBatches, deployment \in Deployments :
              \E failing \in SUBSET (1..Len(entries)) :
                  ingest_logs(entries, deployment, failing)
    \/ /\ last.op = "ingest"
       /\ \E failing \in SUBSET (1..Len(last.logs)) :
              ingest_logs(last.logs, last.deployment, failing)
    \/ Consume

SpecFault == Init /\ [][NextFault]_vars

(***************************************************************************)
(* A client pages through query_logs (commands.rs:95-245) with the cursors *)
(* it is given, while other calls of ingest_logs and                       *)
(* delete_logs_older_than run between its pages.  A command runs with the  *)
(* lock from start to end, so each one is a step.  `trav` holds what the   *)
(* client has collected, the table at its first page, the rows deleted and *)
(* the number of rows inserted since.                                      *)
(***************************************************************************)
PageEvents == {EvErr, EvBoom, EvOk, EvGood}
PageFilters == {NoFilters, [NoFilters EXCEPT !.success = Some(TRUE)]}

\* the first page: no cursor
PageFirst(filters, limit) ==
    /\ trav = None
    /\ \E result \in {QueryResult(filters, limit, None)} :
          trav' = Some([filters |-> filters, limit |-> limit, acc |-> result.logs,
                        pages |-> 1, done |-> ~result.has_more,
                        cursor |-> result.cursor, before |-> logs, gone |-> {},
                        inserted |-> 0])
    /\ UNCHANGED <<logs, now, last, fin, sqlite_master, rowid, logs_fts, settings, lock, pc>>

\* the next page: same filters and limit, the cursor of the page before
PageNext ==
    /\ trav # None /\ ~trav[1].done /\ trav[1].cursor # None
    /\ \E result \in {QueryResult(trav[1].filters, trav[1].limit, trav[1].cursor)} :
          trav' = Some([trav[1] EXCEPT !.acc = @ \o result.logs, !.pages = @ + 1,
                                       !.done = ~result.has_more,
                                       !.cursor = result.cursor])
    /\ UNCHANGED <<logs, now, last, fin, sqlite_master, rowid, logs_fts, settings, lock, pc>>

\* ingest_logs of one event by another caller, before or between the pages
PageIngest(entry, deployment) ==
    /\ \E run \in {IngestLoop(Db, <<entry>>, 1, deployment, now, {}, NoCounts)} :
          /\ Cardinality(run.db.logs) <= MaxRows
          /\ \A k \in DOMAIN run.db.rowid : run.db.rowid[k] <= MaxRowid
          /\ (trav # None /\ ~trav[1].done) =>
                 trav[1].inserted + run.result.inserted <= MaxRows
          /\ Write(run.db)
          /\ trav' = IF trav = None \/ trav[1].done THEN trav
                     ELSE Some([trav[1] EXCEPT !.inserted = @ + run.result.inserted])
    /\ UNCHANGED <<now, last, fin, sqlite_master, settings, lock, pc>>

\* delete_logs_older_than by another caller, before or between the pages
PageDelete(days) ==
    /\ \E done \in {DeleteOlder(logs, CutoffTs(now, days))} :
          /\ done.rows > 0
          /\ Write(DeleteRows(Db, done))
          /\ trav' = IF trav = None \/ trav[1].done THEN trav
                     ELSE Some([trav[1] EXCEPT !.gone = @ \cup (logs \ done.table)])
    /\ UNCHANGED <<now, last, fin, sqlite_master, settings, lock, pc>>

\* the client drops what it collected and may start over
PageEnd ==
    /\ trav # None /\ trav[1].done
    /\ trav' = None
    /\ UNCHANGED <<logs, now, last, fin, sqlite_master, rowid, logs_fts, settings, lock, pc>>

NextPage ==
    \/ \E filters \in PageFilters, limit \in LimitSet : PageFirst(filters, limit)
    \/ PageNext
    \/ \E entry \in PageEvents : PageIngest(entry, S_d1)
    \/ PageDelete(1)
    \/ PageEnd

SpecPage == Init /\ [][NextPage]_vars

(***************************************************************************)
(* clear_all_logs (commands.rs:519-530) and the command called after it    *)
(***************************************************************************)
\* search texts: the words of the stored messages, a word of none, no word
ClearSearchTexts == {S_boom, S_failed, S_Good, S_empty}

NextClear ==
    \/ /\ last.op = "none"
       /\ \E entries \in Batches, deployment \in Deployments :
              ingest_logs(entries, deployment, {})
    \/ /\ last.op = "none"
       /\ clear_all_logs
    \/ /\ last.op = "clear"
       /\ \E filters \in PageFilters, limit \in LimitSet,
             cursor \in {None} \cup {Some(format_cursor(r)) : r \in last.before} :
              query_logs(filters, limit, cursor)
    \/ /\ last.op = "clear"
       /\ \E query \in ClearSearchTexts, filters \in SearchFilterSet, limit \in LimitSet :
              search_logs(query, filters, limit, None)
    \/ /\ last.op = "clear"
       /\ \E entries \in Batches, deployment \in Deployments :
              ingest_logs(entries, deployment, {})
    \/ Consume

SpecClear == Init /\ [][NextClear]_vars

(***************************************************************************)
(* The cursor of query_logs as the text a caller sends and is given        *)
(* (commands.rs:105-118, 164-170, 227-228)                                 *)
(***************************************************************************)
\* one hexadecimal digit, lower case
HexDigit(n) == IF n < 10 THEN 48 + n ELSE 87 + n
RECURSIVE encode(_)
\* hex::encode: two digits for each byte
encode(bytes) ==
    IF bytes = <<>> THEN <<>>
    ELSE <<HexDigit(bytes[1] \div 16), HexDigit(bytes[1] % 16)>> \o encode(Tail(bytes))

\* the TEXT of column id: the digest in hexadecimal
IdText(id) == encode(id.sha256)

\* i64 formatted by "{}"
i64_to_string(n) == IF n < 0 THEN <<45>> \o Digits(0 - n) ELSE Digits(n)

\* str::parse::<i64>().ok(): an optional sign and decimal digits
str_parse_i64(s) == parse_i32(s)

S_colon == <<58>>   \* ":"

RECURSIVE split(_, _)
\* str::split(sep) for a separator of one byte: the parts between the
\* separators; a text without one is a single part
split(s, sep) ==
    IF \A i \in 1..Len(s) : s[i] # sep[1] THEN <<s>>
    ELSE LET k == CHOOSE i \in 1..Len(s) :
                      s[i] = sep[1] /\ \A j \in 1..(i - 1) : s[j] # sep[1]
         IN  <<SubSeq(s, 1, k - 1)>> \o split(SubSeq(s, k + 1, Len(s)), sep)

\* format!("{}:{}", log.ts, log.id) (commands.rs:228)
format_cursor_str(log) == i64_to_string(log.ts) \o S_colon \o IdText(log.id)

\* a parse that takes the first two parts of a text with two parts or more
parse_cursor_first_two(cursor) ==
    IF cursor # None /\ Len(split(cursor[1], S_colon)) >= 2
    THEN [ts |-> str_parse_i64(split(cursor[1], S_colon)[1]),
          id |-> Some(split(cursor[1], S_colon)[2])]
    ELSE [ts |-> None, id |-> None]

\* (cursor_ts, cursor_id) parsed from the text (commands.rs:106-118)
parse_cursor_str(cursor) ==
    IF cursor # None /\ Len(split(cursor[1], S_colon)) = 2
    THEN [ts |-> str_parse_i64(split(cursor[1], S_colon)[1]),
          id |-> Some(split(cursor[1], S_colon)[2])]
    ELSE [ts |-> None, id |-> None]

\* "(ts < ? OR (ts = ? AND id < ?))" with the id bound as text
\* (commands.rs:165-170): TEXT compares byte by byte
CursorWhereStr(parsed, r) ==
    (parsed.ts # None /\ parsed.id # None) =>
        \/ r.ts < parsed.ts[1]
        \/ (r.ts = parsed.ts[1] /\ BytesLess(IdText(r.id), parsed.id[1]))

\* query_logs from the cursor text to the cursor text (commands.rs:103-245)
QueryResultStr(filters, limit_arg, cursor) ==
    LET limit == Min(unwrap_or(limit_arg, DefaultLimit), MaxLimit)
        parsed == parse_cursor_str(cursor)
        matching == {r \in logs : FilterWhere(filters, r) /\ CursorWhereStr(parsed, r)}
        fetched == SqlLimit(OrderByTsIdDesc(matching), limit + 1)
        has_more == GtAsUsize(Len(fetched), limit)
        page == IF has_more THEN SubSeq(fetched, 1, Len(fetched) - 1) ELSE fetched
    IN  [logs |-> [i \in 1..Len(page) |-> RowEntry(page[i])],
         total_count |-> Cardinality(matching),
         has_more |-> has_more,
         cursor |-> IF page = <<>> THEN None
                    ELSE Some(format_cursor_str(page[Len(page)]))]

\* an event before the epoch
EvNeg == [NoEntry EXCEPT !.timestamp = 0 - 5, !.success = Some(TRUE)]
CursorEvents == {EvErr, EvOk, EvGood, EvNeg}

S_1000 == <<49, 48, 48, 48>>   \* "1000"
\* cursor texts no query_logs has produced
CursorTexts ==
    {S_empty, S_x, S_1000,                          \* one part
     S_x \o S_colon \o S_x,                      \* "x:x"
     S_colon \o S_x,                             \* ":x"
     <<32>> \o S_1000 \o S_colon \o S_x,          \* " 1000:x"
     <<45>> \o S_colon \o S_x,                         \* "-:x"
     S_1000 \o S_colon,                          \* "1000:"
     <<43>> \o S_1000 \o S_colon \o S_x,          \* "+1000:x"
     S_1000 \o S_colon \o S_x \o S_colon \o S_x,   \* "1000:x:x"
     S_colon \o S_colon}                          \* "::"

\* what a caller may make of a cursor it was given
Tampered(text) ==
    {text, text \o S_colon \o S_x, text \o S_x, S_x \o text,
     split(text, S_colon)[1]}

QueryStr(filters, limit, cursor) ==
    /\ last' = [op |-> "query_str", filters |-> filters, limit |-> limit,
                cursor |-> cursor, ok |-> TRUE,
                result |-> QueryResultStr(filters, limit, cursor)]
    /\ UNCHANGED <<logs, now, trav, fin, sqlite_master, rowid, logs_fts, settings, lock, pc>>

NextCursor ==
    \/ /\ last.op = "none"
       /\ \E entry \in CursorEvents : ingest_logs(<<entry>>, S_d1, {})
    \/ /\ last.op = "none"
       /\ \E filters \in PageFilters, limit \in LimitSet,
             cursor \in {None} \cup {Some(c) : c \in CursorTexts} :
              QueryStr(filters, limit, cursor)
    \/ /\ last.op = "query_str" /\ last.result.cursor # None
       /\ \E c \in Tampered(last.result.cursor[1]) :
              QueryStr(last.filters, last.limit, Some(c))
    \/ Consume

SpecCursor == Init /\ [][NextCursor]_vars

(***************************************************************************)
(* Queries over a table filled one event at a time                         *)
(***************************************************************************)
\* The events reach the store in the order of their timestamps (and ids)
ArrivesInOrder(row) ==
    \A r \in logs : \/ r.id = row.id
                     \/ r.ts < row.ts
                     \/ (r.ts = row.ts /\ IdLess(r.id, row.id))

\* cursor arguments of a search: the parameter is not used (commands.rs:254)
SearchCursors == {None, Some(<<[int |-> 1000], S_x>>)}

NextQuery ==
    \/ /\ last.op = "none"
       /\ \E entry \in EventSet, deployment \in Deployments :
              /\ ArrivesInOrder(LogRow(entry, deployment, now))
              /\ ingest_logs(<<entry>>, deployment, {})
    \/ /\ last.op = "none"
       /\ \E filters \in FilterSet, limit \in LimitSet,
             cursor \in {None} \cup {Some(format_cursor(r)) : r \in logs} :
              query_logs(filters, limit, cursor)
    \/ /\ last.op = "query" /\ trav # None /\ last.result.cursor # None
       /\ ~trav[1].done
       /\ query_logs(last.filters, last.limit, last.result.cursor)
    \/ /\ last.op = "none"
       /\ \E query \in SearchTexts, filters \in SearchFilterSet, limit \in LimitSet,
             cursor \in SearchCursors :
              search_logs(query, filters, limit, cursor)
    \/ Consume

SpecQuery == Init /\ [][NextQuery]_vars

\* the rows of the table that pass the filters, as the entries a query returns
Matching(filters) == {RowEntry(r) : r \in {q \in logs : FilterWhere(filters, q)}}

\* the limit query_logs and search_logs work with: the default when absent, capped
EffectiveLimit(limit) == Min(unwrap_or(limit, DefaultLimit), MaxLimit)

\* C5: paging with limit k >= 1 from no cursor until has_more is false, the
\* table unchanged, returns every row matching the filters exactly once, in
\* (ts DESC, id DESC) order across and within the pages.
C5_PagingReturnsEachRowOnce ==
    (trav # None /\ trav[1].done /\ trav[1].limit # None /\ trav[1].limit[1] >= 1)
        => LET acc == trav[1].acc
           IN  /\ \A i, j \in 1..Len(acc) : i < j => acc[i] # acc[j]
               /\ {acc[i] : i \in 1..Len(acc)} = Matching(trav[1].filters)
               /\ \A i, j \in 1..Len(acc) :
                      i < j => \/ acc[i].ts > acc[j].ts
                               \/ (acc[i].ts = acc[j].ts /\ IdLess(acc[j].id, acc[i].id))

C5_Witness ==
    /\ trav # None /\ trav[1].done /\ trav[1].limit = Some(1)
    /\ trav[1].pages = 3 /\ Len(trav[1].acc) = 3
    /\ trav[1].acc[1].ts = trav[1].acc[2].ts
    /\ trav[1].filters.deployment # None
    /\ Cardinality(logs) = 3

\* C6 (as claimed): has_more is true exactly when more than `limit` rows match
\* the filters and the cursor predicate, the extra row is not returned, and the
\* cursor is (ts, id) of the last returned row, absent when the page is empty.
C6_HasMoreExactly ==
    last.op = "query"
        => LET limit == EffectiveLimit(last.limit)
               n == Cardinality({r \in logs : /\ FilterWhere(last.filters, r)
                                              /\ CursorWhere(parse_cursor(last.cursor), r)})
               page == last.result.logs
           IN  /\ last.result.has_more <=> n > limit
               /\ last.result.has_more => Len(page) = limit
               /\ last.result.cursor =
                      IF page = <<>> THEN None
                      ELSE Some(<<[int |-> page[Len(page)].ts], page[Len(page)].id>>)

\* C7 (as claimed): total_count is the number of rows matching the filters, the
\* cursor clause left out: the same on every page.
C7_TotalCountIgnoresCursor ==
    last.op = "query"
        => last.result.total_count = Cardinality(Matching(last.filters))

\* C8 (as claimed): whatever the limit argument, query_logs and search_logs
\* return at most the cap, at most `limit` entries when 0 <= limit <= cap, and
\* at most the default when the limit is absent.
C8_PageWithinLimit ==
    (last.op \in {"query", "search"} /\ last.ok)
        => /\ Len(last.result.logs) <= MaxLimit
           /\ (last.limit # None /\ last.limit[1] >= 0 /\ last.limit[1] <= MaxLimit)
                  => Len(last.result.logs) <= last.limit[1]
           /\ last.limit = None => Len(last.result.logs) <= DefaultLimit

\* The filters as C9 states them; `emptyLevelsFilter` says whether a supplied
\* but empty levels list is a filter (that no row passes)
PassesFilters(filters, e, emptyLevelsFilter) ==
    /\ filters.deployment # None => e.deployment = filters.deployment[1]
    /\ filters.start_ts # None => filters.start_ts[1] <= e.ts
    /\ filters.end_ts # None => e.ts <= filters.end_ts[1]
    /\ filters.request_id # None => e.request_id = filters.request_id
    /\ filters.function_path # None => e.function_path = filters.function_path
    /\ filters.success # None => e.success = filters.success
    /\ (filters.levels # None /\ (emptyLevelsFilter \/ filters.levels[1] # <<>>))
           => \E i \in 1..Len(filters.levels[1]) : e.level = Some(filters.levels[1][i])

\* what a query shows of the eligible rows: every entry returned is eligible,
\* without a cursor total_count counts the eligible rows, and a page as long
\* as that count holds all of them
EligibleAre(emptyLevelsFilter) ==
    LET eligible == {RowEntry(r) : r \in logs} \cap
                    {e \in {RowEntry(r) : r \in logs} :
                         PassesFilters(last.filters, e, emptyLevelsFilter)}
        page == last.result.logs
    IN  /\ \A i \in 1..Len(page) : page[i] \in eligible
        /\ last.cursor = None => last.result.total_count = Cardinality(eligible)
        /\ (last.cursor = None /\ Len(page) = last.result.total_count)
               => {page[i] : i \in 1..Len(page)} = eligible

\* C9 (as claimed): a row is eligible exactly when it passes every supplied
\* filter, level being a member of the supplied levels set.
C9_FiltersConjunctive == last.op = "query" => EligibleAre(TRUE)

\* C9 (amended): the same, where a supplied levels list that is empty filters
\* nothing.
C9_FiltersConjunctiveNonEmptyLevels == last.op = "query" => EligibleAre(FALSE)

C9_Witness ==
    /\ last.op = "query" /\ last.cursor = None
    /\ last.filters.deployment # None /\ last.filters.success # None
    /\ last.filters.levels # None
    /\ Len(last.result.logs) = 1
    /\ Cardinality(logs) = 3
    /\ \E r \in logs : r.deployment = S_d1 /\ r.success = None

\* the rows whose own indexed columns hold every token of the search text
\* and that pass the deployment and ts-range filters of the search
Containing(query, filters) ==
    {r \in logs : /\ Tokenize(trim(replace_quote(query))) \subseteq IndexedTokens(r)
                  /\ SearchWhere(filters, r)}

\* C11: a search for a text with a token returns only stored rows whose indexed
\* fields (message, function_path, function_name, request_id) contain the
\* token, and returns every such row that passes the deployment and ts-range
\* filters when they are no more than the limit.
C11_SearchPrecision ==
    (last.op = "search" /\ last.ok /\ Tokenize(last.query) # {})
        => LET page == last.result.logs
               containing == {RowEntry(r) : r \in Containing(last.query, last.filters)}
           IN  /\ \A i \in 1..Len(page) : page[i] \in containing
               /\ Cardinality(containing) <= EffectiveLimit(last.limit)
                      => {page[i] : i \in 1..Len(page)} = containing

C11_Witness ==
    /\ last.op = "search" /\ last.ok /\ last.query = S_boom
    /\ \E r \in logs : r.message = S_boom_failed
    /\ \E r \in logs : r.message = S_all_good
    /\ Len(last.result.logs) = 1
    /\ last.result.logs[1].message = S_boom_failed

\* C14: a search applies the deployment and ts-range filters and no other
\* (request_id, function_path, success, levels, topics change nothing): the
\* entries are rows holding the tokens and passing those three filters, in
\* ts-descending order, all of them or the `limit` latest ones.
C14_SearchFiltersSubset ==
    (last.op = "search" /\ last.ok /\ Tokenize(last.query) # {})
        => LET f == last.filters
               page == last.result.logs
               wanted == {RowEntry(r) : r \in
                           {q \in logs :
                               /\ Tokenize(last.query) \subseteq IndexedTokens(q)
                               /\ f.deployment # None => q.deployment = f.deployment[1]
                               /\ f.start_ts # None => q.ts >= f.start_ts[1]
                               /\ f.end_ts # None => q.ts <= f.end_ts[1]}}
               limit == EffectiveLimit(last.limit)
               returned == {page[i] : i \in 1..Len(page)}
           IN  /\ returned \subseteq wanted
               /\ \A i, j \in 1..Len(page) : i < j => page[i].ts >= page[j].ts
               /\ \/ returned = wanted
                  \/ /\ limit >= 0 /\ Len(page) = limit
                     /\ \A e \in wanted \ returned : \A i \in 1..Len(page) : e.ts <= page[i].ts

C14_Witness ==
    /\ last.op = "search" /\ last.ok
    /\ last.filters.request_id = Some(S_r1)
    /\ Len(last.result.logs) = 2
    /\ last.result.logs[1].ts > last.result.logs[2].ts
    /\ \E i \in 1..2 : last.result.logs[i].request_id # Some(S_r1)

\* C15: every successful search result has total_count equal to the number of
\* entries returned, has_more false and no cursor, whatever cursor was passed
\* and however many rows match.
C15_SearchResultShape ==
    (last.op = "search" /\ last.ok)
        => /\ last.result.total_count = Len(last.result.logs)
           /\ last.result.has_more = FALSE
           /\ last.result.cursor = None

C15_Witness ==
    /\ last.op = "search" /\ last.ok /\ last.cursor # None
    /\ last.limit = Some(1) /\ Len(last.result.logs) = 1
    /\ Cardinality(Containing(last.query, last.filters)) >= 2

\* C13: a search whose text is empty after quote escaping and trimming, that
\* is a text of nothing but whitespace, returns the error and leaves the rows,
\* the index and the settings as they were.
C13_EmptySearchRejected ==
    [][(/\ last.op # "search" /\ last'.op = "search"
        /\ \A i \in 1..Len(last'.query) : IsSpace(last'.query[i]))
           => /\ ~last'.ok
              /\ last'.result = "Empty search query"
              /\ UNCHANGED <<logs, rowid, logs_fts, settings>>]_vars

C13_Witness ==
    /\ last.op = "search" /\ ~last.ok /\ last.query = S_blank
    /\ logs # {} /\ logs_fts # {}

(***************************************************************************)
(* The store: ingest and retention                                         *)
(***************************************************************************)

\* C1: ingesting the batch of the call right before again, into the same
\* deployment, inserts nothing and counts every event of the batch a duplicate.
C1_SecondIngestAllDuplicates ==
    (last.op = "ingest" /\ last.follows = "same batch")
        => /\ last.result.inserted = 0
           /\ last.result.duplicates = Len(last.logs)

C1_Witness ==
    /\ last.op = "ingest" /\ last.follows = "same batch"
    /\ Len(last.logs) = 2 /\ Cardinality(logs) >= 2
    /\ \E r \in logs : r.deployment # last.deployment

\* C2: an event with the id fields of the event ingested (and stored) by the
\* call right before, but other fields differing, is counted a duplicate: over
\* the two calls inserted=1, duplicates=1, errors=0, one row has the id and it
\* holds the first event's values.
C2_SecondEventDropped ==
    (last.op = "ingest" /\ last.follows = "same id fields")
        => LET first == last.prior[1]
               second == last.logs[1]
               same == {r \in logs : r.id = LogRow(second, last.deployment, 0).id}
           IN  /\ first # second
               /\ last.result = [inserted |-> 0, duplicates |-> 1, errors |-> 0]
               /\ Cardinality(same) = 1
               /\ \A r \in same : r = LogRow(first, last.deployment, r.created_at)
                                  /\ r.execution_id = first.execution_id
                                  /\ r.duration_ms = first.duration_ms
                                  /\ r.udf_type = first.udf_type

C2_Witness ==
    /\ last.op = "ingest" /\ last.follows = "same id fields"
    /\ last.logs[1].execution_id # last.prior[1].execution_id
    /\ last.logs[1].raw # last.prior[1].raw
    /\ \E r \in logs : r.created_at < now

\* C10: after delete_logs_older_than(days), with cutoff = now - days*86_400_000:
\* every row that had ts < cutoff is gone, every remaining row has ts >= cutoff,
\* every row that had ts >= cutoff is still stored unchanged, and the count
\* returned is the number of rows removed.
C10_DeleteOlderThan ==
    last.op = "delete"
        => LET cutoff == last.at - last.days * 86400000
           IN  /\ \A r \in last.before : r.ts < cutoff => r \notin logs
               /\ \A r \in logs : r.ts >= cutoff
               /\ \A r \in last.before : r.ts >= cutoff => r \in logs
               /\ logs \subseteq last.before
               /\ last.result = Cardinality(last.before \ logs)

C10_Witness ==
    /\ last.op = "delete"
    /\ \E r \in last.before : r.ts < last.at - last.days * 86400000
    /\ \E r \in logs : r.ts = last.at - last.days * 86400000
    /\ last.result >= 1

\* the ids of the rows a table holds
Ids(table) == {r.id : r \in table}

\* the id ingest_logs computes for an event
EventId(entry, deployment) == LogRow(entry, deployment, 0).id

\* C16: an INSERT that fails adds one to errors and the loop goes on: errors
\* counts the failed events, every event is counted once (inserted +
\* duplicates + errors = len(batch)), and every event whose INSERT did not
\* fail, also after a failed one, has its row in the table.
C16_ErrorsCountedBatchContinues ==
    [][last'.op = "ingest"
          => LET res == last'.result
                 n == Len(last'.logs)
             IN  /\ res.errors = Cardinality(last'.failed)
                 /\ res.inserted + res.duplicates + res.errors = n
                 /\ \A i \in (1..n) \ last'.failed :
                        EventId(last'.logs[i], last'.deployment) \in Ids(logs')]_vars

C16_Witness ==
    /\ last.op = "ingest" /\ Len(last.logs) = 2 /\ last.failed = {1}
    /\ last.result = [inserted |-> 1, duplicates |-> 0, errors |-> 1]

\* C17: a batch with a failed event is not rolled back: no row stored before
\* the call is lost, the rows inserted before the failed event are stored
\* after the call, and so are the rows of the events after it; the table
\* grows by exactly the rows counted as inserted.
C17_PartialBatchKept ==
    [][(last'.op = "ingest" /\ last'.failed # {})
          => LET n == Len(last'.logs)
                 ok == (1..n) \ last'.failed
             IN  /\ logs \subseteq logs'
                 /\ Ids(logs') = Ids(logs) \cup
                        {EventId(last'.logs[i], last'.deployment) : i \in ok}
                 /\ Cardinality(logs' \ logs) = last'.result.inserted]_vars

C17_Witness ==
    /\ last.op = "ingest" /\ Len(last.logs) = 2 /\ last.failed = {2}
    /\ last.result = [inserted |-> 1, duplicates |-> 0, errors |-> 1]
    /\ EventId(last.logs[1], last.deployment) \in Ids(logs)
    /\ EventId(last.logs[2], last.deployment) \notin Ids(logs)

\* an event is stored when a row has its defining fields
Stored(entry, deployment, table) ==
    \E r \in table :
        <<r.ts, r.deployment, r.request_id, r.function_path, r.level, r.message>>
            = IdFields(entry, deployment)

\* what a step that ingests the batch of the call before once more must do
RetryIsSafe ==
    LET n == Len(last'.logs)
    IN  /\ \A r1, r2 \in logs' : r1.id = r2.id => r1 = r2
        /\ logs \subseteq logs'
        /\ Cardinality(logs' \ logs) = last'.result.inserted
        /\ \A i \in (1..n) \ last'.failed : Stored(last'.logs[i], last'.deployment, logs')

\* C18 (as claimed): retrying a failed or partial batch is safe: the table
\* holds at most one row per id, no stored row is changed or lost, the rows
\* added are the ones counted as inserted, and an event is counted a duplicate
\* only when it is already stored, so that after the retry every event whose
\* INSERT did not fail is stored.
C18_RetrySafe ==
    [][(/\ last.op = "ingest" /\ last'.op = "ingest"
        /\ last'.logs = last.logs /\ last'.deployment = last.deployment)
           => RetryIsSafe]_vars

(***************************************************************************)
(* compute_log_id on its own: two argument tuples and their ids            *)
(***************************************************************************)
IdArgs ==
    [ts : {1000, 1001}, deployment : {S_d1, S_d2},
     request_id : {None, Some(S_empty), Some(S_r1)},
     function_path : {None, Some(S_r1)},
     level : {None, Some(S_INFO)},
     message : {S_x, S_y, S_INFOx}]

IdOf(a) == compute_log_id(a.ts, a.deployment, a.request_id, a.function_path, a.level, a.message)

InitId ==
    /\ logs = {}
    /\ now = Now0
    /\ last = [op |-> "none"]
    /\ trav = None
    /\ rowid = <<>>
    /\ logs_fts = {}
    /\ settings = DefaultSettings
    /\ lock = None
    /\ pc = [t \in Threads |-> Idle]
    /\ fin \in [a : IdArgs, b : IdArgs, ids : {None}]
    /\ sqlite_master = Schema

ComputeIds ==
    /\ fin.ids = None
    /\ fin' = [fin EXCEPT !.ids = Some(<<IdOf(fin.a), IdOf(fin.b)>>)]
    /\ UNCHANGED <<logs, now, last, trav, sqlite_master, rowid, logs_fts, settings, lock, pc>>

NextId == ComputeIds

SpecId == InitId /\ [][NextId]_vars

(***************************************************************************)
(* extract_message, infer_level and infer_topic on their own: one event    *)
(* and the fields ingest_logs derives from it (commands.rs:25-27)          *)
(***************************************************************************)
DeriveEntries ==
    {[NoEntry EXCEPT !.error = e, !.log_lines = l, !.function_name = f,
                     !.success = ok, !.udf_type = u] :
        e \in {None, Some(S_x), Some(S_empty)},
        l \in {None, Some(<<>>), Some(<<S_boom>>), Some(<<S_boom, S_failed>>)},
        f \in {None, Some(S_f), Some(S_empty)},
        ok \in {None, Some(TRUE), Some(FALSE)},
        u \in {None, Some(S_query), Some(S_Query), Some(S_MUTATION), Some(S_action),
               Some(S_HttpAction), Some(S_cron), Some(S_Cron), Some(S_actions),
               Some(S_empty)}}

InitDerive ==
    /\ logs = {}
    /\ now = Now0
    /\ last = [op |-> "none"]
    /\ trav = None
    /\ rowid = <<>>
    /\ logs_fts = {}
    /\ settings = DefaultSettings
    /\ lock = None
    /\ pc = [t \in Threads |-> Idle]
    /\ sqlite_master = Schema
    /\ fin \in [entry : DeriveEntries, derived : {None}]

Derive ==
    /\ fin.derived = None
    /\ fin' = [fin EXCEPT !.derived =
                  Some([message |-> extract_message(fin.entry),
                        level |-> infer_level(fin.entry),
                        topic |-> infer_topic(fin.entry.udf_type)])]
    /\ UNCHANGED <<logs, now, last, trav, sqlite_master, rowid, logs_fts, settings, lock, pc>>

NextDerive == Derive

SpecDerive == InitDerive /\ [][NextDerive]_vars

\* C3: compute_log_id depends on its six arguments only: equal arguments give
\* equal ids, and two argument tuples that differ in the message alone give
\* different ids.
C3_IdDeterminedAndMessageSensitive ==
    fin.ids # None
        => /\ (fin.a = fin.b => fin.ids[1][1] = fin.ids[1][2])
           /\ ((fin.a.message # fin.b.message /\ [fin.a EXCEPT !.message = fin.b.message] = fin.b)
                   => fin.ids[1][1] # fin.ids[1][2])

C3_Witness ==
    /\ fin.ids # None
    /\ fin.a.message # fin.b.message
    /\ [fin.a EXCEPT !.message = fin.b.message] = fin.b
    /\ fin.a.request_id # None /\ fin.a.level # None

\* C4 (as claimed): argument tuples that differ in any component, including in
\* which optional fields are absent, get different ids.
C4_DistinctTuplesDistinctIds ==
    (fin.ids # None /\ fin.a # fin.b) => fin.ids[1][1] # fin.ids[1][2]

(***************************************************************************)
(* Claims about the index and the connection lock, checked under SpecConc  *)
(***************************************************************************)

\* the texts a row puts into the index
IndexedTexts(r) ==
    {r.message, update_opt(r.function_path), update_opt(r.function_name),
     update_opt(r.request_id)}

\* C12: in every state the index holds one entry per row of logs, under the
\* row's rowid and with the row's message, function_path, function_name and
\* request_id, and nothing else (so a deleted row has no entry and a
\* duplicate added none); every row is matched by the words of each of its
\* indexed texts; a finished search holds rows of the table only.
C12_IndexMatchesTable ==
    /\ DOMAIN rowid = Ids(logs)
    /\ \A j, k \in DOMAIN rowid : rowid[j] = rowid[k] => j = k
    /\ logs_fts = {FtsValues(rowid[r.id], r) : r \in logs}
    /\ Cardinality(logs_fts) = Cardinality(logs)
    /\ \A r \in logs : \A text \in IndexedTexts(r) :
          Tokenize(text) # {} =>
              \E e \in logs_fts : e.rowid = rowid[r.id] /\ FtsMatch(text, e)
    /\ \A t \in Callers :
          (pc[t].op = "search" /\ pc[t].done) =>
              \A i \in 1..Len(pc[t].result) : pc[t].result[i].id \in Ids(logs)

\* C12 witness: an ingest has just counted a duplicate, after a deletion
\* that left a gap in the rowids of the rows still stored
C12_Witness ==
    \E t \in Callers :
        /\ pc[t].op = "ingest" /\ pc[t].done
        /\ pc[t].result.duplicates > 0
        /\ \E k \in DOMAIN rowid : rowid[k] > Cardinality(logs)
        /\ logs_fts # {}

\* a thread is between taking the lock and giving it back
InCriticalSection(t) ==
    pc[t].op \notin {"idle", "startup", "sweep", "sleeping", "woken"}

RECURSIVE SumCounts(_)
SumCounts(pairs) ==
    IF pairs = {} THEN 0
    ELSE LET p == CHOOSE q \in pairs : TRUE
         IN  p[2] + SumCounts(pairs \ {p})

\* the settings pairs that some command or the migration wrote as a whole
WholeSettings == SettingsArgs \cup {[retention_days |-> 30, enabled |-> TRUE]}

\* C19: at most one thread is inside a command or a scheduler step, and it
\* is the thread that holds the lock; what a command has read comes from one
\* state of the store: the settings pair is one that was written as a whole,
\* the statistics add up, and the page of a query agrees with its count.
C19_OneOperationAtATime ==
    /\ \A t, u \in Threads : (InCriticalSection(t) /\ InCriticalSection(u)) => t = u
    /\ \A t \in Threads : InCriticalSection(t) <=> lock = Some(t)
    /\ \A t \in Callers :
          /\ (pc[t].op = "get_settings" /\ pc[t].done) => pc[t].result \in WholeSettings
          /\ (pc[t].op = "stats" /\ pc[t].done) =>
                 /\ pc[t].result.total_logs = SumCounts(pc[t].result.logs_by_deployment)
                 /\ (pc[t].result.total_logs = 0) <=> (pc[t].result.oldest_ts = None)
                 /\ (pc[t].result.total_logs = 0) <=> (pc[t].result.newest_ts = None)
          /\ (pc[t].op = "query" /\ pc[t].done) =>
                 Len(pc[t].result.logs) = Min(MaxLimit, pc[t].result.total_count)

\* C19 witness: one of the two settings writes of a command is done, the pair
\* in the store is none that was written as a whole, and the writer alone is
\* inside a command
C19_Witness ==
    \E t \in Callers :
        /\ pc[t].op = "set_settings" /\ ~pc[t].done
        /\ lock = Some(t)
        /\ [retention_days |-> ReadRetentionDays,
            enabled |-> ReadEnabled] \notin WholeSettings
        /\ pc[Scheduler].op = "sweep"

\* C20: while a thread is inside ingest_logs, the store is what its own
\* rows so far made of the store it found: no row of another ingest came in
\* and no sweep, delete or clear took rows out since it took the lock.
C20_BatchUnderOneLock ==
    \A t \in Callers :
        pc[t].op = "ingest" =>
            LET run == IngestLoop(pc[t].start, SubSeq(pc[t].logs, 1, pc[t].i - 1), 1,
                                  pc[t].deployment, pc[t].at, {}, NoCounts)
            IN  /\ Db = run.db
                /\ pc[t].result = run.result
                /\ lock = Some(t)

\* C20 witness: a batch of two is half done, it has stored a row, and the
\* scheduler stands before its sweep
C20_Witness ==
    \E t \in Callers :
        /\ pc[t].op = "ingest" /\ pc[t].i = 2 /\ Len(pc[t].logs) = 2
        /\ pc[t].result.inserted = 1
        /\ pc[Scheduler].op = "sweep"
        /\ pc[Scheduler].days = 0


(***************************************************************************)
(* Claims about the life of a row, checked under SpecConc                  *)
(***************************************************************************)

\* C21: no step changes a stored row: a row whose id is in the table before
\* and after a step has the same fields after it, json_blob and created_at
\* included, and the table never holds two rows with one id.
C21_RowsNeverUpdated ==
    [][/\ \A r \in logs : \A q \in logs' : q.id = r.id => q = r
       /\ \A q1, q2 \in logs' : q1.id = q2.id => q1 = q2]_vars

\* C21 witness: an ingest that began after the clock moved has counted a
\* duplicate, and the stored row still carries its earlier created_at
C21_Witness ==
    \E t \in Callers :
        /\ pc[t].op = "ingest" /\ pc[t].done
        /\ pc[t].result.duplicates > 0
        /\ \E r \in logs :
              /\ r.created_at < pc[t].at
              /\ \E i \in 1..Len(pc[t].logs) :
                    LogRow(pc[t].logs[i], pc[t].deployment, pc[t].at).id = r.id


\* the commands and the scheduler step that hold a DELETE FROM logs
Deleters == {"delete", "clear", "run_retention_once"}

\* C22: a step that takes a row out of the table is a step of
\* delete_logs_older_than, clear_all_logs or run_retention_once, made by the
\* thread that holds the lock; every step of another command (query,
\* search, get by id, stats, settings read and write, optimize, ingest)
\* leaves each stored row in the table.
C22_RemovedOnlyByDeleters ==
    [][(\E r \in logs : r \notin logs') =>
          \E t \in Threads : lock = Some(t) /\ pc[t].op \in Deleters]_vars

\* C22 witness: optimize_log_db has run its statements on a table of two
\* rows and both are still stored
C22_Witness ==
    \E t \in Callers :
        /\ pc[t].op = "optimize" /\ pc[t].done
        /\ Cardinality(logs) = 2
        /\ Cardinality(logs_fts) = 2


(***************************************************************************)
(* Claims about the retention scheduler                                    *)
(***************************************************************************)

\* the positions of the scheduler task, in the order of its loop
SchedulerSteps ==
    {<<"startup", "get_retention_days">>, <<"woken", "get_retention_days">>,
     <<"get_retention_days", "sweep">>, <<"sweep", "run_retention_once">>,
     <<"run_retention_once", "sleeping">>, <<"sleeping", "woken">>}

\* C23: the task begins a sweep from startup without a sleep before it, goes
\* to sleep only after a sweep, begins the next sweep only after the sleep,
\* and a sleep lasts at least 24 hours on a clock that never goes back (so
\* two sweeps begin at least a period apart); every startup and every end
\* of a sleep is followed by a finished sweep.
C23_SweepAtStartupThenEachPeriod ==
    /\ [][/\ now' >= now
          /\ pc'[Scheduler].op # pc[Scheduler].op =>
                <<pc[Scheduler].op, pc'[Scheduler].op>> \in SchedulerSteps
          /\ (pc[Scheduler].op = "sleeping" /\ pc'[Scheduler].op = "woken") =>
                now' >= now + DayMs]_vars
    /\ (pc[Scheduler].op = "startup") ~> (pc[Scheduler].op = "sleeping")
    /\ (pc[Scheduler].op = "woken") ~> (pc[Scheduler].op = "sleeping")

\* C23 witness: the task has slept once and finished the sweep after it, a
\* period after the start of the store
C23_Witness ==
    /\ pc[Scheduler].op = "run_retention_once" /\ pc[Scheduler].done
    /\ now >= Now0 + DayMs
    /\ pc[Scheduler].result > 0


\* the positions of a run between its read of retention_days and its DELETE
InFlight == {"get_retention_days", "sweep", "run_retention_once"}

\* C24: a run begins by taking the lock; the settings do not change between
\* that and its read, and the read gives the stored retention_days (30 when
\* it does not parse); from the read to the DELETE the run keeps the value
\* it read, whatever is written to the settings meanwhile; the DELETE takes
\* out the rows with ts < now - days * 86_400_000 for that value.
C24_SweepUsesDaysReadAtItsStart ==
    [][/\ (pc[Scheduler].op \in {"startup", "woken"}
           /\ pc'[Scheduler].op = "get_retention_days") => lock' = Some(Scheduler)
       /\ (pc[Scheduler].op = "get_retention_days" /\ ~pc[Scheduler].done) =>
             /\ settings' = settings
             /\ pc'[Scheduler].done =>
                   pc'[Scheduler].days =
                       IF SelectValue(settings, "retention_days") = None THEN 30
                       ELSE unwrap_or(parse_i32(SelectValue(settings,
                                                            "retention_days")[1]), 30)
       /\ (pc[Scheduler].op \in InFlight /\ pc'[Scheduler].op \in InFlight
           /\ (pc[Scheduler].op = "get_retention_days" => pc[Scheduler].done)) =>
             pc'[Scheduler].days = pc[Scheduler].days
       /\ (pc[Scheduler].op = "run_retention_once" /\ ~pc[Scheduler].done
           /\ pc'[Scheduler].done) =>
             /\ logs' = {r \in logs : ~(r.ts < CutoffTs(now, pc[Scheduler].days))}
             /\ pc'[Scheduler].result = Cardinality(logs \ logs')]_vars

\* C24 witness: a run that read 30 days has deleted nothing, while the
\* settings, written after its read, say 0 days and a row is stored
C24_Witness ==
    /\ pc[Scheduler].op = "run_retention_once" /\ pc[Scheduler].done
    /\ pc[Scheduler].days = 30
    /\ ReadRetentionDays = 0
    /\ logs # {}


\* the positions of a scheduler task that is sleeping or running a sweep
SchedulerAlive ==
    {"startup", "get_retention_days", "sweep", "run_retention_once", "sleeping", "woken"}

\* C25: the scheduler task is always sleeping or running a sweep, it never
\* ends; a sweep that failed is followed by the sleep like one that succeeded.
C25_SchedulerNeverStops ==
    /\ pc[Scheduler].op \in SchedulerAlive
    /\ (pc[Scheduler].op = "sleeping") => lock # Some(Scheduler)

\* C26: a thread that finds the mutex poisoned ends its operation with an
\* error value; none panics at lock().
C26_LockFailureIsAnErrorValue ==
    \A t \in Threads : pc[t].op = "panicked" => pc[t].at # "lock"

\* a text that reads as an integer: an optional sign, then digits only
IsIntegerText(text) ==
    \E sign \in {<<>>, <<43>>, <<45>>} :
        \E k \in 1..Len(text) :
            /\ SubSeq(text, 1, Len(sign)) = sign
            /\ Len(text) = Len(sign) + k
            /\ \A i \in (Len(sign) + 1)..Len(text) : text[i] \in 48..57

\* C27: get_log_store_settings does not fail on a missing or malformed stored
\* value: it returns retention_days = 30 when the key is absent or its value
\* is not an integer, and enabled = true when the enabled key is absent.
C27_GetFallsBackToDefaults ==
    \A t \in Callers :
        (pc[t].op = "get_settings" /\ pc[t].done) =>
            /\ pc[t].result \in [retention_days : Int, enabled : BOOLEAN]
            /\ (\A r \in settings : r.key = "retention_days" => ~IsIntegerText(r.value))
                   => pc[t].result.retention_days = 30
            /\ (\A r \in settings : r.key # "enabled") => pc[t].result.enabled = TRUE

\* C27 witness: the stored retention_days is "x" and there is no enabled row;
\* the command has returned 30 and true
C27_Witness ==
    \E t \in Callers :
        /\ pc[t].op = "get_settings" /\ pc[t].done
        /\ settings = {SettingsRow("retention_days", S_x)}
        /\ pc[t].result = [retention_days |-> 30, enabled |-> TRUE]

\* the two rows of the settings table that hold the value s
SettingsTableOf(s) ==
    {SettingsRow("retention_days", i32_to_string(s.retention_days)),
     SettingsRow("enabled", IF s.enabled THEN S_true ELSE S_false)}

\* C28: set_log_store_settings(s) writes both keys: when it is done the table
\* holds one row per key and reads as s, for zero and negative days and both
\* values of enabled; a get_log_store_settings that finds the table as the
\* set left it returns exactly s; no step of the set changes a stored log row
\* or the index.
C28_SetThenGetReturnsWhatWasSet ==
    [][\A t \in Callers :
          /\ (pc'[t].op = "set_settings" /\ pc'[t].done) =>
                /\ settings' = SettingsTableOf(pc'[t].settings)
                /\ \A r1, r2 \in settings' : r1.key = r2.key => r1 = r2
                /\ ReadRetentionDays' = pc'[t].settings.retention_days
                /\ ReadEnabled' = pc'[t].settings.enabled
          /\ (pc[t].op = "set_settings" \/ pc'[t].op = "set_settings") =>
                UNCHANGED <<logs, rowid, logs_fts>>
          /\ (pc[t].op = "set_settings" /\ pc[t].done) => UNCHANGED settings
          /\ (pc'[t].op = "get_settings" /\ pc'[t].done) =>
                \A s \in SettingsArgsAll :
                    settings' = SettingsTableOf(s) => pc'[t].result = s]_vars

\* C28 witness: log rows are stored, a set of (0, false) has returned and the
\* get after it has returned (0, false); no launch wrote the text "0"
C28_Witness ==
    \E t \in Callers :
        /\ pc[t].op = "get_settings" /\ pc[t].done
        /\ pc[t].result = [retention_days |-> 0, enabled |-> FALSE]
        /\ \A u \in Callers \ {t} : pc[u] = Idle
        /\ logs # {}

\* C29: run_migrations on a store that has its schema leaves the log rows,
\* the index, the schema and the settings rows as they are; on any store it
\* changes no log row, no index entry and no settings row that is there, and
\* writes the defaults '30' and 'true' only under keys without a row; a
\* second run after it changes nothing.
C29_SchemaInitializationIsIdempotent ==
    [][((\A t \in Threads : pc[t] = Closed) /\ pc' = Launched) =>
          /\ UNCHANGED <<logs, rowid, logs_fts>>
          /\ settings \subseteq settings'
          /\ \A r \in settings' \ settings :
                /\ r \in DefaultSettings
                /\ \A q \in settings : q.key # r.key
          /\ \A r1, r2 \in settings' : r1.key = r2.key => r1 = r2
          /\ sqlite_master' = Schema
          /\ (sqlite_master = Schema /\ Cardinality(settings) = 2) =>
                UNCHANGED <<settings, sqlite_master>>
          /\ run_migrations(Conn') = [ok |-> TRUE, conn |-> Conn']]_vars

\* C29 witness: the app was launched on a store with its schema, log rows and
\* the settings (0, false) written by the user, and the launch left them
C29_Witness ==
    /\ last.op = "init_db"
    /\ last.conn.sqlite_master = Schema
    /\ last.conn.logs # {}
    /\ last.conn.settings = SettingsTableOf([retention_days |-> 0, enabled |-> FALSE])
    /\ Conn = last.conn
    /\ pc = Launched

\* the two operations that delete by age
DeletersByAge == {"delete", "run_retention_once"}

\* C30: the scheduled sweep and delete_logs_older_than do the same thing to
\* the store: either of them, run with the lock at time now with `days`,
\* deletes exactly the rows with ts < now - days * 86_400_000 with their
\* index entries, keeps every other row with its rowid, changes nothing else
\* at the checkpoint and reports the number of rows it deleted; what is left
\* and what is reported depend on the store, the time and the days only.
C30_SweepAndManualDeleteAgree ==
    [][\A t \in Threads :
          /\ (pc[t].op \notin DeletersByAge /\ pc'[t].op \in DeletersByAge) =>
                /\ lock = None /\ lock' = Some(t)
                /\ UNCHANGED <<logs, rowid, logs_fts>>
          /\ (pc[t].op \in DeletersByAge /\ ~pc[t].done /\ pc'[t] # pc[t]) =>
                /\ pc'[t].op = pc[t].op /\ pc'[t].done
                /\ logs' = {r \in logs : ~(r.ts < CutoffTs(now, pc[t].days))}
                /\ pc'[t].result = Cardinality(logs \ logs')
                /\ rowid' = [k \in {r.id : r \in logs'} |-> rowid[k]]
                /\ logs_fts' = {e \in logs_fts : \E r \in logs' : rowid[r.id] = e.rowid}
                /\ UNCHANGED <<settings, sqlite_master, now, lock>>]_vars

\* C30 witness: the sweep has run with days = 1, the days of the manual
\* deletes, and like them it deleted the row older than the cutoff and kept
\* the row whose ts is the cutoff
C30_Witness ==
    /\ pc[Scheduler].op = "run_retention_once" /\ pc[Scheduler].done
    /\ pc[Scheduler].days = 1
    /\ pc[Scheduler].result = 1
    /\ \E r \in logs : r.ts = now - DayMs

\* C31: a traversal of query_logs that has reached has_more = false, with
\* calls of ingest_logs and delete_logs_older_than between its pages, has
\* returned no row twice, and has returned once every row that matched the
\* filters when the traversal began and was not deleted during it.
C31_PagingUnderConcurrentInserts ==
    trav # None =>
        LET acc == trav[1].acc
        IN  /\ \A i, j \in 1..Len(acc) : i < j => acc[i].id # acc[j].id
            /\ trav[1].done =>
                  \A r \in trav[1].before \ trav[1].gone :
                      FilterWhere(trav[1].filters, r) =>
                          Cardinality({i \in 1..Len(acc) : acc[i] = RowEntry(r)}) = 1

\* the same for every limit but -1, where LIMIT limit+1 = 0 fetches no row
C31_ForLimitsOtherThanMinusOne ==
    (trav # None /\ trav[1].limit # Some(0 - 1)) => C31_PagingUnderConcurrentInserts

\* a traversal of three pages of one row is over; two rows were
\* there at its start and both came back, a row inserted between the pages
\* below the cursor came back too, and one inserted above it did not
PagedBetweenInserts ==
    /\ trav # None /\ trav[1].done
    /\ trav[1].limit = Some(1) /\ trav[1].pages = 3
    /\ Cardinality(trav[1].before) = 2
    /\ trav[1].inserted >= 1
    /\ Len(trav[1].acc) = 3
    /\ trav[1].gone = {}

\* the text of a list of one or two lines, joined with " | "
JoinedLines(lines) ==
    IF Len(lines) = 1 THEN lines[1]
    ELSE lines[1] \o <<32, 124, 32>> \o lines[2]

\* C32: the message is "Error: {text}" when error text is present; else the
\* log lines joined with " | " when the list is present and not empty; else,
\* with a function name, "Function '{name}' failed" when success is false and
\* "Function '{name}' executed" when it is true or unknown; else "Log entry".
\* It is always a text.
C32_MessagePriority ==
    fin.derived # None =>
        LET e == fin.entry
            message == fin.derived[1].message
            quoted == <<70, 117, 110, 99, 116, 105, 111, 110, 32, 39>>
                          \o (IF e.function_name = None THEN <<>> ELSE e.function_name[1])
        IN  /\ message \in Seq(0..255)
            /\ e.error # None => message = <<69, 114, 114, 111, 114, 58, 32>> \o e.error[1]
            /\ (e.error = None /\ e.log_lines # None /\ Len(e.log_lines[1]) > 0) =>
                   message = JoinedLines(e.log_lines[1])
            /\ (e.error = None /\ (e.log_lines = None \/ Len(e.log_lines[1]) = 0)) =>
                   /\ (e.function_name # None /\ e.success = Some(FALSE)) =>
                          message = quoted \o <<39, 32, 102, 97, 105, 108, 101, 100>>
                   /\ (e.function_name # None /\ e.success # Some(FALSE)) =>
                          message = quoted \o <<39, 32, 101, 120, 101, 99, 117, 116, 101, 100>>
                   /\ e.function_name = None =>
                          message = <<76, 111, 103, 32, 101, 110, 116, 114, 121>>

\* C32 witness: an event with error text, two log lines, a function name and
\* success = true has the message "Error: x"
C32_Witness ==
    /\ fin.derived # None
    /\ fin.entry.error = Some(S_x)
    /\ fin.entry.log_lines = Some(<<S_boom, S_failed>>)
    /\ fin.entry.function_name = Some(S_f)
    /\ fin.derived[1].message = <<69, 114, 114, 111, 114, 58, 32, 120>>

\* C33: the level is "ERROR" when an error is present or success is false
\* (an error wins over success = true), "INFO" when there is no error and
\* success is true, absent when there is no error and success is unknown;
\* there is no other level.
C33_LevelFromErrorAndSuccess ==
    fin.derived # None =>
        LET e == fin.entry
            level == fin.derived[1].level
        IN  /\ level \in {<<>>, <<<<69, 82, 82, 79, 82>>>>, <<<<73, 78, 70, 79>>>>}
            /\ (e.error # None \/ e.success = Some(FALSE)) <=> level = <<<<69, 82, 82, 79, 82>>>>
            /\ (e.error = None /\ e.success = Some(TRUE)) <=> level = <<<<73, 78, 70, 79>>>>
            /\ (e.error = None /\ e.success = None) <=> level = <<>>

\* C33 witness: an event with an error and success = true has level "ERROR"
C33_Witness ==
    /\ fin.derived # None
    /\ fin.entry.error = Some(S_empty)
    /\ fin.entry.success = Some(TRUE)
    /\ fin.derived[1].level = Some(S_ERROR)

\* a text with its letters A-Z replaced by a-z
Lowered(text) ==
    [i \in 1..Len(text) |-> IF text[i] \in 65..90 THEN text[i] + 32 ELSE text[i]]

\* "query", "mutation", "action", "httpaction"
FunctionTypes ==
    {<<113, 117, 101, 114, 121>>, <<109, 117, 116, 97, 116, 105, 111, 110>>,
     <<97, 99, 116, 105, 111, 110>>, <<104, 116, 116, 112, 97, 99, 116, 105, 111, 110>>}

\* C34: the topic is "function" when udf_type, whatever its case, is one of
\* query, mutation, action, httpaction; it is udf_type as sent for any other
\* value; it is absent exactly when udf_type is absent.
C34_TopicFromUdfType ==
    fin.derived # None =>
        LET u == fin.entry.udf_type
            topic == fin.derived[1].topic
        IN  /\ topic = <<>> <=> u = <<>>
            /\ (u # <<>> /\ Lowered(u[1]) \in FunctionTypes) =>
                   topic = <<<<102, 117, 110, 99, 116, 105, 111, 110>>>>
            /\ (u # <<>> /\ Lowered(u[1]) \notin FunctionTypes) => topic = u

\* C34 witness: "HttpAction" has given "function"
C34_Witness ==
    /\ fin.derived # None
    /\ fin.entry.udf_type = Some(S_HttpAction)
    /\ fin.derived[1].topic = Some(S_function)

\* "Cron" has stayed "Cron"
C34_PassthroughKeepsCase ==
    /\ fin.derived # None
    /\ fin.entry.udf_type = Some(S_Cron)
    /\ fin.derived[1].topic = Some(S_Cron)

\* the ids of the rows the events of a batch make
BatchIds(entries, deployment) ==
    {LogRow(entries[i], deployment, 0).id : i \in 1..Len(entries)}

\* C35: clear_all_logs leaves table logs and the index empty and the settings
\* as they were; the command after it finds nothing: query_logs returns no
\* entries, total_count = 0 and has_more = false, search_logs returns no
\* entry for any text, and ingest_logs stores every event of its batch as
\* inserted, the events that were stored before the clear included.
C35_ClearEmptiesTheStore ==
    [][/\ last'.op = "clear" =>
             /\ logs' = {} /\ logs_fts' = {} /\ rowid' = <<>>
             /\ settings' = settings
             /\ last'.before = logs
       /\ (last.op = "clear" /\ last'.op = "query") =>
             /\ last'.ok
             /\ last'.result.logs = <<>>
             /\ last'.result.total_count = 0
             /\ last'.result.has_more = FALSE
       /\ (last.op = "clear" /\ last'.op = "search") =>
             (last'.ok => last'.result.logs = <<>>)
       /\ (last.op = "clear" /\ last'.op = "ingest") =>
             /\ last'.result.inserted = Cardinality(BatchIds(last'.logs, last'.deployment))
             /\ last'.result.inserted + last'.result.duplicates = Len(last'.logs)
             /\ {r.id : r \in logs'} = BatchIds(last'.logs, last'.deployment)
             /\ \A r \in last.before :
                    r.id \in BatchIds(last'.logs, last'.deployment) =>
                        \E q \in logs' : q.id = r.id]_vars

\* C35 witness: two rows were stored, the clear has run and the table, the
\* index and the rowids are empty
C35_Witness ==
    /\ last.op = "clear"
    /\ Cardinality(last.before) = 2
    /\ logs = {} /\ logs_fts = {} /\ rowid = <<>>
    /\ settings = DefaultSettings

\* C36: when the checkpoint fails after the DELETE, delete_logs_older_than
\* and run_retention_once return an error and no count, and the rows with
\* ts < cutoff are gone from the table and the index and stay gone when the
\* operation returns; when the DELETE itself fails no row is gone.
C36_CheckpointFailureKeepsTheDeletion ==
    [][\A t \in Threads :
          /\ (pc[t].op \in DeletersByAge /\ ~pc[t].done /\ pc'[t].done
              /\ "error" \in DOMAIN pc'[t]) =>
                /\ pc'[t].result = 0 - 1
                /\ pc'[t].error = "Checkpoint error" =>
                      /\ logs' = {r \in logs : ~(r.ts < CutoffTs(now, pc[t].days))}
                      /\ logs_fts' = {e \in logs_fts :
                                         \E r \in logs' : rowid[r.id] = e.rowid}
                /\ pc'[t].error = "Delete error" => UNCHANGED <<logs, logs_fts>>
          /\ (pc[t].op \in DeletersByAge /\ pc[t].done /\ pc'[t] # pc[t]) =>
                UNCHANGED <<logs, rowid, logs_fts>>]_vars

\* an operation has ended with a checkpoint error, and a row that was older
\* than its cutoff when it ran is not in the table
CheckpointFailedAfterDelete(t) ==
    /\ pc[t].op \in DeletersByAge /\ pc[t].done
    /\ "error" \in DOMAIN pc[t] /\ pc[t].error = "Checkpoint error"
    /\ \E r \in pc[t].start : r.ts < CutoffTs(now, pc[t].days) /\ r \notin logs

\* C36 witness: that has happened to a delete_logs_older_than
C36_Witness == \E t \in Callers : CheckpointFailedAfterDelete(t)

\* it has happened to a sweep too
C36_SweepWitness == CheckpointFailedAfterDelete(Scheduler)

\* what the specification calls a malformed cursor: the text does not split
\* into exactly two parts at ':', or its first part is not an integer
Malformed(text) ==
    \/ Cardinality({i \in 1..Len(text) : text[i] = 58}) # 1
    \/ ~IsIntegerText(SubSeq(text, 1, (CHOOSE i \in 1..Len(text) : text[i] = 58) - 1))

\* C37: query_logs does not fail on a malformed cursor: a cursor that does not
\* split into exactly two ':'-separated parts, or whose first part is not an
\* integer, is treated as no cursor and the first page is returned; a cursor
\* query_logs produced parses back to the (ts, id) it was built from.
C37_MalformedCursorIsNoCursor ==
    last.op = "query_str" =>
        /\ last.ok
        /\ (last.cursor # None /\ Malformed(last.cursor[1])) =>
               last.result = QueryResultStr(last.filters, last.limit, None)
        /\ last.result.cursor # None =>
               parse_cursor_str(last.result.cursor) =
                   [ts |-> Some(last.result.logs[Len(last.result.logs)].ts),
                    id |-> Some(IdText(last.result.logs[Len(last.result.logs)].id))]

\* a cursor of three parts, made from one query_logs gave, was answered with the
\* first page although the cursor it was made from gives another page
C37_Witness ==
    /\ last.op = "query_str" /\ last.cursor # None
    /\ Len(split(last.cursor[1], S_colon)) = 3
    /\ last.result.logs # <<>>
    /\ last.result # QueryResultStr(last.filters, last.limit,
                                    Some(SubSeq(last.cursor[1], 1, Len(last.cursor[1]) - 2)))

\* a cursor whose first part is no integer was answered with rows
C37_NotAnIntegerWitness ==
    /\ last.op = "query_str" /\ last.cursor # None
    /\ Len(split(last.cursor[1], S_colon)) = 2
    /\ str_parse_i64(split(last.cursor[1], S_colon)[1]) = None
    /\ last.result.logs # <<>>

\* a cursor was produced for a row with a negative timestamp, and a cursor that
\* was produced was sent back and gave the rows after it
C37_RoundTripWitness ==
    /\ last.op = "query_str" /\ last.result.cursor # None
    /\ last.result.logs[Len(last.result.logs)].ts < 0
    /\ last.cursor # None /\ ~Malformed(last.cursor[1])
    /\ last.result # QueryResultStr(last.filters, last.limit, None)

\* the positions in which a thread is between a lock() that returned the guard
\* and the return that drops it
InsideCall(t) ==
    pc[t].op \in {"ingest", "delete", "stats", "search", "get_retention_days",
                  "run_retention_once"}

\* C38: the lock protocol is deadlock-free: no operation acquires the connection
\* lock while it holds it, every operation releases the lock on every return
\* path, error returns included, and so under a fair lock every started
\* operation and every sweep eventually completes while the callers and the
\* scheduler compete.
C38_EveryStartedOperationCompletes ==
    /\ \A t \in Callers : (pc[t].op # "idle") ~> (pc[t].op = "idle")
    /\ (pc[Scheduler].op \in {"startup", "woken"}) ~> (pc[Scheduler].op = "sleeping")

\* C38, as long as no thread has panicked with the guard: every started
\* operation and every sweep completes
C38_CompletesUnlessPoisoned ==
    /\ \A t \in Callers : (pc[t].op # "idle") ~> (pc[t].op = "idle" \/ Poisoned)
    /\ (pc[Scheduler].op \in {"startup", "woken"}) ~>
           (pc[Scheduler].op = "sleeping" \/ Poisoned)

\* C38, the guard: it is held by exactly the thread that is inside a call, and
\* one thread at most is inside a call
C38_GuardHeldInsideOneCall ==
    /\ \A t \in Threads : (lock = Some(t)) <=> InsideCall(t)
    /\ \A t, u \in Threads : (InsideCall(t) /\ InsideCall(u)) => t = u

\* a caller waits in lock() while the scheduler is inside its sweep, after
\* another caller's command has returned
C38_CompeteWitness ==
    /\ pc[Scheduler].op = "run_retention_once"
    /\ \E t \in Callers : pc[t].op = "lock"
    /\ \E t \in Callers : pc[t].op = "idle"

\* the scheduler task has ended at lock() after a command panicked with the
\* guard: the sweep it began is never done
C38_SweepNeverCompletes ==
    /\ pc[Scheduler].op = "panicked"
    /\ \E t \in Callers : pc[t].op = "panicked"

RECURSIVE SumOfCounts(_)
\* the sum of the counts of a set of (deployment, count) pairs
SumOfCounts(pairs) ==
    IF pairs = {} THEN 0
    ELSE LET p == CHOOSE q \in pairs : TRUE IN p[2] + SumOfCounts(pairs \ {p})

\* C39: get_log_stats reports the current table exactly: total is the number of
\* stored rows, oldest and newest are the minimum and maximum ts (both absent
\* when the table is empty), and the per-deployment counts list each deployment
\* that has rows once, with counts that sum to total.
C39_StatsMatchTheTable ==
    \A t \in Callers :
        (pc[t].op = "stats" /\ pc[t].done) =>
            /\ pc[t].result.total_logs = Cardinality(logs)
            /\ (logs = {}) =>
                   (pc[t].result.oldest_ts = None /\ pc[t].result.newest_ts = None)
            /\ (logs # {}) =>
                   /\ pc[t].result.oldest_ts # None /\ pc[t].result.newest_ts # None
                   /\ \E r \in logs : r.ts = pc[t].result.oldest_ts[1]
                   /\ \E r \in logs : r.ts = pc[t].result.newest_ts[1]
                   /\ \A r \in logs : /\ pc[t].result.oldest_ts[1] <= r.ts
                                      /\ r.ts <= pc[t].result.newest_ts[1]
            /\ \A d \in Deployments :
                   Cardinality({p \in pc[t].result.logs_by_deployment : p[1] = d})
                       = IF \E r \in logs : r.deployment = d THEN 1 ELSE 0
            /\ \A p \in pc[t].result.logs_by_deployment :
                   p[1] \in Deployments /\ p[2] = Cardinality({r \in logs : r.deployment = p[1]})
            /\ SumOfCounts(pc[t].result.logs_by_deployment) = pc[t].result.total_logs

\* get_log_stats has answered for a table with rows of two deployments and of
\* two timestamps
C39_Witness ==
    \E t \in Callers :
        /\ pc[t].op = "stats" /\ pc[t].done
        /\ Cardinality(pc[t].result.logs_by_deployment) = 2
        /\ pc[t].result.oldest_ts # pc[t].result.newest_ts
        /\ pc[t].result.total_logs = 3

\* get_log_stats has answered for an empty table
C39_EmptyWitness ==
    \E t \in Callers :
        /\ pc[t].op = "stats" /\ pc[t].done
        /\ logs = {} /\ pc[t].result.oldest_ts = None

\* C40: the stored `enabled` is only stored and returned: whatever its value,
\* each event of an ingest_logs is inserted when its id is new and counted as
\* a duplicate when it is not, and the scheduled sweep deletes the rows older
\* than the retention_days it read and reports their number; with enabled =
\* false both do exactly what they do with enabled = true.
C40_EnabledChangesNothing ==
    [][/\ \A t \in Callers :
            (pc[t].op = "ingest" /\ ~pc[t].done /\ pc'[t] # pc[t]) =>
                LET row == LogRow(pc[t].logs[pc[t].i], pc[t].deployment, pc[t].at)
                    fresh == \A r \in logs : r.id # row.id
                IN  /\ logs' = IF fresh THEN logs \cup {row} ELSE logs
                    /\ pc'[t].result =
                           [inserted |-> pc[t].result.inserted + (IF fresh THEN 1 ELSE 0),
                            duplicates |-> pc[t].result.duplicates
                                               + (IF fresh THEN 0 ELSE 1),
                            errors |-> pc[t].result.errors]
                    /\ settings' = settings
       /\ (pc[Scheduler].op = "run_retention_once" /\ ~pc[Scheduler].done
           /\ pc'[Scheduler].done) =>
              /\ logs' = {r \in logs : ~(r.ts < CutoffTs(now, pc[Scheduler].days))}
              /\ pc'[Scheduler].result = Cardinality(logs \ logs')
              /\ settings' = settings]_vars

\* the stored `enabled` is "false" and an ingest_logs, which has held the lock
\* since before its first row, has inserted a row
C40_Witness ==
    /\ SettingsRow("enabled", S_false) \in settings
    /\ \E t \in Callers :
          /\ pc[t].op = "ingest" /\ pc[t].done
          /\ pc[t].result.inserted > 0

\* the stored `enabled` is "false" and the sweep has deleted a row
C40_SweepWitness ==
    /\ SettingsRow("enabled", S_false) \in settings
    /\ pc[Scheduler].op = "run_retention_once" /\ pc[Scheduler].done
    /\ pc[Scheduler].result > 0

====
